---- MODULE Spec2Model ----
(***************************************************************************)
(* A model of gofi: occlusion-aware goal recognition (OGoalRecognition,    *)
(* OGoalsProbabilities, OccludedFactor), belief merging in                 *)
(* GOFIAgent.update_plan, and the super-root of the search tree (OTree).   *)
(*                                                                         *)
(* Probabilities are Python floats in the source.  They are modelled as    *)
(* exact non-negative rationals <<n, d>> in lowest terms, so "== 1 +- eps" *)
(* of the documentation becomes "= <<1, 1>>".  A float division by 0.0     *)
(* raises ZeroDivisionError, which is what the source's handler expects.   *)
(***************************************************************************)
EXTENDS Integers, Sequences, FiniteSets, TLC

(* pc       where the modelled call stands                                   *)
(* cfg      the agent's configuration and the observation of the call       *)
(* tables   GOFIAgent._goal_probabilities: agent id -> OGoalsProbabilities  *)
(* world    per observed agent, the answers of the collaborators (planner   *)
(*          oracle, reward, map) for the frames of the call; in SpecTree    *)
(*          the simulator (ORollout); in SpecFactors the factor objects of  *)
(*          a lookup                                                        *)
(* merge    id_order, the loop position and previous_agent_id of            *)
(*          update_plan; in SpecTree what update_plan has of select_plan    *)
(* rollout  the samples of the current OMCTS._rollout                       *)
(* tree     the OTree of the search                                         *)
(* hist     history: what the passes read and the calls returned            *)
VARIABLES pc, cfg, tables, world, merge, rollout, tree, hist

vars == <<pc, cfg, tables, world, merge, rollout, tree, hist>>

-----------------------------------------------------------------------------
(* Exact rational arithmetic standing for the float arithmetic.            *)

RECURSIVE GCD(_, _)
GCD(a, b) == IF b = 0 THEN a ELSE GCD(b, a % b)

Rat(n, d) == IF n = 0 THEN <<0, 1>> ELSE <<n \div GCD(n, d), d \div GCD(n, d)>>

Zero == <<0, 1>>
One == <<1, 1>>

RAdd(a, b) == Rat(a[1] * b[2] + b[1] * a[2], a[2] * b[2])
RMul(a, b) == Rat(a[1] * b[1], a[2] * b[2])
RDiv(a, b) == Rat(a[1] * b[2], a[2] * b[1])
RSub(a, b) == Rat(a[1] * b[2] - b[1] * a[2], a[2] * b[2])

RECURSIVE RSumSeq(_)
RSumSeq(s) == IF s = <<>> THEN Zero ELSE RAdd(Head(s), RSumSeq(Tail(s)))

RECURSIVE RSumOver(_, _)
RSumOver(f, S) ==
    IF S = {} THEN Zero
    ELSE LET x == CHOOSE y \in S : TRUE IN RAdd(f[x], RSumOver(f, S \ {x}))

(* Python's None, for a slot holding a float or None *)
None == <<>>

-----------------------------------------------------------------------------
(* OccludedFactor: src/gofi/occluded_factor.py                             *)

(* the placeholder element of the empty factor, OccludedFactor([None], [False]) *)
NoElement == -1

(* OccludedFactor.__init__: presence defaults to all-False; the two force  *)
(* flags are asserted not to be set together (ok = FALSE: AssertionError). *)
OccludedFactorInit(elements, presence, force_visible, force_invisible) ==
    [ok |-> ~(force_visible /\ force_invisible),
     elements |-> elements,
     presence |-> IF elements = <<>> THEN None
                  ELSE IF presence = <<>> THEN [i \in 1..Len(elements) |-> FALSE]
                  ELSE presence,
     force_visible |-> force_visible,
     force_invisible |-> force_invisible]

no_occlusions(f) == f.presence = None \/ \A i \in 1..Len(f.presence) : ~f.presence[i]

present_elements(f) == {f.elements[i] : i \in {j \in 1..Len(f.presence) : f.presence[j]}}

(* mutant of PresencesProduct: only the all-present and all-absent vectors *)
PresencesProduct_AllOrNone(n) ==
    IF n = 0 THEN << <<>> >>
    ELSE << [i \in 1..n |-> TRUE], [i \in 1..n |-> FALSE] >>

(* itertools.product over n copies of [True, False]: the first element varies slowest *)
RECURSIVE PresencesProduct(_)
PresencesProduct(n) ==
    IF n = 0 THEN << <<>> >>
    ELSE LET rest == PresencesProduct(n - 1)
             k == Len(rest)
         IN [i \in 1..(2 * k) |-> IF i <= k THEN <<TRUE>> \o rest[i]
                                            ELSE <<FALSE>> \o rest[i - k]]

(* mutant of CreateAllInstantiations: any() in place of all() at lines 91, 93 *)
CreateAllInstantiations_AnyForced(elements, forced) ==
    IF elements # <<>>
    THEN LET pp == PresencesProduct(Len(elements))
             forced_ids_idx == {i \in 1..Len(elements) : elements[i] \in forced}
         IN IF forced = {}
            THEN [p \in 1..Len(pp) |-> OccludedFactorInit(elements, pp[p], FALSE, FALSE)]
            ELSE [p \in 1..Len(pp) |->
                    IF \E i \in forced_ids_idx : pp[p][i]
                    THEN OccludedFactorInit(elements, pp[p], TRUE, FALSE)
                    ELSE IF \E i \in forced_ids_idx : ~pp[p][i]
                    THEN OccludedFactorInit(elements, pp[p], FALSE, TRUE)
                    ELSE OccludedFactorInit(elements, pp[p], FALSE, FALSE)]
    ELSE << OccludedFactorInit(<<NoElement>>, <<FALSE>>, FALSE, FALSE) >>

(* create_all_instantiations(elements, forced_visible_agents); forced is    *)
(* the set of forced ids ({} for None or an empty list)                     *)
CreateAllInstantiations(elements, forced) ==
    IF elements # <<>>
    THEN LET pp == PresencesProduct(Len(elements))
             forced_ids_idx == {i \in 1..Len(elements) : elements[i] \in forced}
         IN IF forced = {}
            THEN [p \in 1..Len(pp) |-> OccludedFactorInit(elements, pp[p], FALSE, FALSE)]
            ELSE [p \in 1..Len(pp) |->
                    IF \A i \in forced_ids_idx : pp[p][i]
                    THEN OccludedFactorInit(elements, pp[p], TRUE, FALSE)
                    ELSE IF \A i \in forced_ids_idx : ~pp[p][i]
                    THEN OccludedFactorInit(elements, pp[p], FALSE, TRUE)
                    ELSE OccludedFactorInit(elements, pp[p], FALSE, FALSE)]
    ELSE << OccludedFactorInit(<<NoElement>>, <<FALSE>>, FALSE, FALSE) >>

-----------------------------------------------------------------------------
(* OGoalsProbabilities: src/gofi/recognition/ogoals_probabilities.py       *)

(* the candidate goals of the scenario (GOFIAgent._goals) *)
Goals == {"g1", "g2"}

(* the default occlusion mass, "pz = 0.1 if occluded_factors_priors is None" *)
DefaultPz == <<1, 10>>

(* OGoalsProbabilities.__init__ with uniform goal priors and a scalar pz    *)
(* (None: the default).  Factors are keyed by their index in the list: the  *)
(* source keys its dicts by the factor objects, which hash by identity.     *)
(* A trajectory slot is "None" or "traj"; all_trajectories[key] is the      *)
(* length of the list.                                                      *)
OGoalsProbabilities(goals, occluded_factors, pz_arg) ==
    LET H == 1..Len(occluded_factors)
        goals_and_factors == goals \X H
        n_occluded == Cardinality({i \in H : ~no_occlusions(occluded_factors[i])})
        n_visible == Len(occluded_factors) - n_occluded
        pz == IF pz_arg = None THEN DefaultPz ELSE pz_arg
        pnz == RSub(One, pz)
        priors == [i \in H |-> IF no_occlusions(occluded_factors[i])
                               THEN RDiv(pnz, <<n_visible, 1>>)
                               ELSE RDiv(pz, <<n_occluded, 1>>)]
    IN [goals_priors |-> [g \in goals |-> Rat(1, Cardinality(goals))],
        occluded_factors_priors |-> priors,
        merged_occluded_factors_probabilities |-> [i \in H |-> Zero],
        goals_probabilities |->
            [k \in goals_and_factors |-> Rat(1, Cardinality(goals_and_factors))],
        occluded_factors_probabilities |-> priors,
        optimum_trajectory |-> [k \in goals_and_factors |-> "None"],
        current_trajectory |-> [k \in goals_and_factors |-> "None"],
        all_trajectories |-> [k \in goals_and_factors |-> 0],
        likelihood |-> [k \in goals_and_factors |-> None]]

-----------------------------------------------------------------------------
(* OGoalRecognition.update_goals_probabilities:                            *)
(* src/gofi/recognition/ogoal_recognition.py                               *)
(*                                                                         *)
(* The planner oracle, the reward function and the map are collaborators   *)
(* outside the repository.  Their answers for one observed agent are a     *)
(* record o:                                                               *)
(*   o.reached[g]   goal.reached(frame_ini[agent_id].position)             *)
(*   o.stopping[g]  isinstance(goal, ip.StoppingGoal)                      *)
(*   o.blocked[g]   _check_blocked raises RuntimeError                     *)
(*   o.gen[g, i]    "fail_opt": no trajectory from the initial frame (nor  *)
(*                  from the current one); "fail_cur": none from the       *)
(*                  current frame; "half", "one": both are found and the   *)
(*                  Boltzmann likelihood is 1/2 or 1.                      *)

GenOutcomes == {"fail_opt", "fail_cur", "half", "one"}

(* self._likelihood(opt_trajectory, all_trajectories[0], goal): exp(..) > 0 *)
Likelihood(out) == IF out = "half" THEN <<1, 2>> ELSE One

(* mutant of ReachedAtStart: the isinstance test without its "not" *)
ReachedAtStart_StoppingOnly(o, g) == o.reached[g] /\ o.stopping[g]

(* line 77: the goal is reached at the first frame and is no stopping goal *)
ReachedAtStart(o, g) == o.reached[g] /\ ~o.stopping[g]

(* lines 75-98: which call raises RuntimeError, if any *)
RaisedAt(t, o, k) ==
    IF ReachedAtStart(o, k[1]) THEN "reached"
    ELSE IF o.blocked[k[1]] THEN "blocked"
    ELSE IF t.optimum_trajectory[k] = "None" /\ o.gen[k] = "fail_opt" THEN "optimum"
    ELSE IF o.gen[k] \in {"fail_opt", "fail_cur"} THEN "current"
    ELSE "no"

(* lines 118 and 135: the likelihood of a key *)
KeyLikelihood(t, o, k) ==
    IF RaisedAt(t, o, k) # "no" THEN Zero ELSE Likelihood(o.gen[k])

(* mutant of OccludedFactorsPrior: the force flags are not consulted *)
OccludedFactorsPrior_NoOverride(t, factor, i) == t.occluded_factors_priors[i]

(* mutant of OccludedFactorsPrior: the factor's last posterior is the prior *)
OccludedFactorsPrior_LastPosterior(t, factor, i) ==
    IF factor.force_visible THEN One
    ELSE IF factor.force_invisible THEN Zero
    ELSE t.occluded_factors_probabilities[i]

(* lines 138-142: the factor's prior, overridden by the force flags *)
OccludedFactorsPrior(t, factor, i) ==
    IF factor.force_visible THEN One
    ELSE IF factor.force_invisible THEN Zero
    ELSE t.occluded_factors_priors[i]

(* mutant of UnnormalisedPosterior: the factor's prior is left out *)
UnnormalisedPosterior_PriorLeftOut(t, factors, o, k) ==
    RMul(KeyLikelihood(t, o, k), t.goals_priors[k[1]])

(* lines 146-149: the unnormalised posterior of a key *)
UnnormalisedPosterior(t, factors, o, k) ==
    RMul(RMul(KeyLikelihood(t, o, k), t.goals_priors[k[1]]),
         OccludedFactorsPrior(t, factors[k[2]], k[2]))

(* lines 150-152: factor_goal_sum of factor i *)
FactorGoalSum(t, factors, o, i) ==
    RSumOver([g \in DOMAIN t.goals_priors |-> UnnormalisedPosterior(t, factors, o, <<g, i>>)],
             DOMAIN t.goals_priors)

(* line 153: norm_factor *)
NormFactor(t, factors, o) ==
    RSumSeq([i \in 1..Len(factors) |-> FactorGoalSum(t, factors, o, i)])

(* line 159: the factor's probability; with norm_factor = 0 the division    *)
(* raises ZeroDivisionError, which is caught, and the sum stays as it is    *)
NormalisedFactorProbability(pz_unnorm, norm_factor) ==
    IF norm_factor = Zero THEN pz_unnorm ELSE RDiv(pz_unnorm, norm_factor)

(* mutant of NormalisedGoalProbability: divides by norm_factor, not by pz *)
NormalisedGoalProbability_ByNorm(pg_z, pz, norm_factor, goal_prior) ==
    IF norm_factor = Zero THEN pg_z
    ELSE IF pz # Zero THEN RDiv(pg_z, norm_factor) ELSE goal_prior

(* mutant of NormalisedGoalProbability: no fallback to the goal prior *)
NormalisedGoalProbability_NoFallback(pg_z, pz, norm_factor, goal_prior) ==
    IF norm_factor = Zero THEN pg_z
    ELSE IF pz # Zero THEN RDiv(pg_z, pz) ELSE pg_z

(* mutant of NormalisedGoalProbability: the fallback also when line 159     *)
(* raised                                                                   *)
NormalisedGoalProbability_FallbackAlways(pg_z, pz, norm_factor, goal_prior) ==
    IF pz # Zero THEN RDiv(pg_z, pz) ELSE goal_prior

(* lines 160-163: the goal probability given the factor; skipped when the   *)
(* division of line 159 raised                                              *)
NormalisedGoalProbability(pg_z, pz, norm_factor, goal_prior) ==
    IF norm_factor = Zero THEN pg_z
    ELSE IF pz # Zero THEN RDiv(pg_z, pz) ELSE goal_prior

(* the whole pass on table t *)
UpdateGoalsProbabilities(t, factors, o) ==
    LET H == 1..Len(factors)
        keys == DOMAIN t.goals_probabilities
        raised == [k \in keys |-> RaisedAt(t, o, k)]
        unnorm == [k \in keys |-> UnnormalisedPosterior(t, factors, o, k)]
        sums == [i \in H |-> FactorGoalSum(t, factors, o, i)]
        norm_factor == NormFactor(t, factors, o)
    IN [t EXCEPT
          !.likelihood = [k \in keys |-> KeyLikelihood(t, o, k)],
          !.optimum_trajectory =
              [k \in keys |-> IF raised[k] \in {"current", "no"} THEN "traj" ELSE @[k]],
          !.current_trajectory =
              [k \in keys |-> IF raised[k] = "no" THEN "traj" ELSE "None"],
          !.all_trajectories = [k \in keys |-> IF raised[k] = "no" THEN 1 ELSE @[k]],
          !.occluded_factors_probabilities =
              [i \in H |-> NormalisedFactorProbability(sums[i], norm_factor)],
          !.goals_probabilities =
              [k \in keys |-> NormalisedGoalProbability(unnorm[k], sums[k[2]], norm_factor,
                                                        t.goals_priors[k[1]])]]

-----------------------------------------------------------------------------
(* Recognition on one table: SpecRecog.                                    *)
(* The table is built as update_plan builds it (line 158) and then         *)
(* receives recognition passes; between passes its factor priors may be    *)
(* overwritten the way the merge chain of update_plan overwrites them.     *)

MaxPasses == 2
MaxPriorWrites == 1

(* the hidden elements (agent ids) and the forced-visible ids of a call *)
RecogElementChoices == {<<>>, <<11>>}
ForcedChoices == {{}, {11}, {13}}
PzChoices == {None, <<1, 2>>}

Subset2Fun(S) == [g \in Goals |-> g \in S]

Oracles(factors) ==
    [reached : [Goals -> BOOLEAN],
     stopping : {Subset2Fun({}), Subset2Fun({"g2"})},
     blocked : {Subset2Fun({}), Subset2Fun({"g1"})},
     gen : [Goals \X (1..Len(factors)) -> GenOutcomes]]

(* what a previous agent's pass can have left as its factor probabilities *)
PriorWrites(n) ==
    IF n = 1 THEN {<<Zero>>, <<One>>}
    ELSE {[i \in 1..n |-> Zero],
          [i \in 1..n |-> IF i = 1 THEN <<1, 3>> ELSE IF i = 2 THEN <<2, 3>> ELSE Zero],
          [i \in 1..n |-> IF i = 1 THEN One ELSE Zero]}

NoTree == [used |-> FALSE]
NoMerge == [used |-> FALSE]
NoRollout == [used |-> FALSE]

RecogInit ==
    /\ pc = "recog"
    /\ \E elements \in RecogElementChoices, forced \in ForcedChoices, pz \in PzChoices :
         LET factors == CreateAllInstantiations(elements, forced)
         IN /\ cfg = [factors |-> factors, pz |-> pz]
            /\ tables = [a \in {1} |-> OGoalsProbabilities(Goals, factors, pz)]
            /\ \E o \in Oracles(factors) : world = [a \in {1} |-> o]
    /\ hist = [passes |-> 0, writes |-> 0, prior_used |-> None, before |-> None,
               unnorm |-> None, writes_at_pass |-> <<>>]
    /\ merge = NoMerge
    /\ rollout = NoRollout
    /\ tree = NoTree

(* gofi_agent.py lines 187-188 on this table: the priors are overwritten *)
RecogOverwritePriors ==
    /\ hist.writes < MaxPriorWrites
    /\ hist.passes < MaxPasses
    /\ \E pv \in PriorWrites(Len(cfg.factors)) :
         tables' = [tables EXCEPT ![1].occluded_factors_priors = pv]
    /\ hist' = [hist EXCEPT !.writes = @ + 1]
    /\ UNCHANGED <<pc, cfg, world, merge, rollout, tree>>

(* one call of update_goals_probabilities on the table; hist keeps the      *)
(* table as it was when the call began and the values lines 146-149 stored  *)
RecogPass ==
    /\ hist.passes < MaxPasses
    /\ tables' = [tables EXCEPT ![1] = UpdateGoalsProbabilities(@, cfg.factors, world[1])]
    /\ hist' = [hist EXCEPT !.passes = @ + 1,
                            !.prior_used = tables[1].occluded_factors_priors,
                            !.before = tables[1],
                            !.writes_at_pass = Append(@, hist.writes),
                            !.unnorm = [k \in DOMAIN tables[1].goals_probabilities |->
                                          UnnormalisedPosterior(tables[1], cfg.factors,
                                                                world[1], k)]]
    /\ UNCHANGED <<pc, cfg, world, merge, rollout, tree>>

OptimalTrajectoryToGoalWithFactor_OptimumAsDefault(t, k) ==
    IF t.all_trajectories[k] = 0 THEN t.optimum_trajectory[k] ELSE "traj"

(* optimal_trajectory_to_goal_with_factor: the first of the key's           *)
(* trajectories; the index raises IndexError when the list is empty         *)
OptimalTrajectoryToGoalWithFactor(t, k) ==
    IF t.all_trajectories[k] = 0 THEN "IndexError" ELSE "traj"

(* a rollout asks the recognised table for the trajectory of a key          *)
(* (omcts.py line 61); rollout keeps the key and what the call gave         *)
RecogQueryTrajectory ==
    /\ pc = "recog"
    /\ hist.passes >= 1
    /\ \E k \in DOMAIN tables[1].all_trajectories :
         rollout' = [used |-> TRUE, key |-> k,
                     result |-> OptimalTrajectoryToGoalWithFactor(tables[1], k)]
    /\ pc' = "queried"
    /\ UNCHANGED <<cfg, tables, world, merge, tree, hist>>

RecogNext == RecogOverwritePriors \/ RecogPass \/ RecogQueryTrajectory

SpecRecog == RecogInit /\ [][RecogNext]_vars

-----------------------------------------------------------------------------
(* Claims about one recognition pass (under SpecRecog).                    *)

RecogTable == tables[1]
RecogH == 1..Len(cfg.factors)
RecogPassed == pc = "recog" /\ hist.passes >= 1

(* norm_factor of the last pass *)
LastNormFactor == NormFactor(hist.before, cfg.factors, world[1])

PosteriorSumOfFactor(t, i) ==
    RSumOver([g \in Goals |-> t.goals_probabilities[<<g, i>>]], Goals)

PosteriorSumOfTable(t) ==
    RSumSeq([i \in 1..Len(t.occluded_factors_probabilities) |-> PosteriorSumOfFactor(t, i)])

(* every key raised RuntimeError in the last pass *)
EveryKeyInfeasible ==
    \A k \in DOMAIN RecogTable.goals_probabilities : RaisedAt(hist.before, world[1], k) # "no"

(* C1: after an update pass whose total unnormalised mass is nonzero the    *)
(* factor probabilities sum to 1, and for every factor of probability > 0   *)
(* the goal probabilities given that factor sum to 1.                       *)
C1_MarginalsAndPosteriorsNormalised ==
    (RecogPassed /\ LastNormFactor # Zero) =>
        /\ RSumSeq(RecogTable.occluded_factors_probabilities) = One
        /\ \A i \in RecogH :
              RecogTable.occluded_factors_probabilities[i] # Zero
                  => PosteriorSumOfFactor(RecogTable, i) = One

C1_Witness ==
    /\ RecogPassed
    /\ LastNormFactor # Zero
    /\ Len(cfg.factors) = 2
    /\ \A i \in RecogH : RecogTable.occluded_factors_probabilities[i] \notin {Zero, One}
    /\ \E k \in DOMAIN RecogTable.goals_probabilities :
          RecogTable.goals_probabilities[k] \notin {Zero, One, <<1, 2>>}

(* C2, as stated: whenever a pass has finished and not every key was        *)
(* infeasible, the goal probabilities sum to 1 over all (goal, factor) keys *)
C2_Original_PosteriorSumsToOneOverAllKeys ==
    (RecogPassed /\ ~EveryKeyInfeasible) => PosteriorSumOfTable(RecogTable) = One

(* C2, amended: after a pass whose total unnormalised mass is nonzero the   *)
(* goal probabilities sum to 1 within every factor (they are conditional on *)
(* the factor), so over all keys they sum to the number of factors; after a *)
(* pass of zero total mass they sum to 0.                                   *)
C2_PosteriorSumsToNumberOfFactors ==
    RecogPassed =>
        /\ LastNormFactor # Zero =>
              /\ \A i \in RecogH : PosteriorSumOfFactor(RecogTable, i) = One
              /\ PosteriorSumOfTable(RecogTable) = <<Len(cfg.factors), 1>>
        /\ LastNormFactor = Zero => PosteriorSumOfTable(RecogTable) = Zero

C2_Witness ==
    /\ RecogPassed
    /\ LastNormFactor # Zero
    /\ Len(cfg.factors) = 2
    /\ \E i \in RecogH : RecogTable.occluded_factors_probabilities[i] = Zero
    /\ PosteriorSumOfTable(RecogTable) = <<2, 1>>

(* C7: the unnormalised posterior a pass stores for a key is                *)
(* likelihood * goal prior * factor prior, the factor prior being 1 for a   *)
(* force_visible factor and 0 for a force_invisible one, whatever pz was    *)
(* configured and whatever prior was written into the table.                *)
C7_UnnormalisedPosterior ==
    RecogPassed =>
        \A k \in DOMAIN RecogTable.goals_probabilities :
            hist.unnorm[k] =
                RMul(RMul(RecogTable.likelihood[k], RecogTable.goals_priors[k[1]]),
                     IF cfg.factors[k[2]].force_visible THEN One
                     ELSE IF cfg.factors[k[2]].force_invisible THEN Zero
                     ELSE hist.prior_used[k[2]])

C7_Witness ==
    /\ RecogPassed
    /\ hist.writes = 1
    /\ cfg.pz = None
    /\ \E k \in DOMAIN RecogTable.goals_probabilities :
          /\ cfg.factors[k[2]].force_visible
          /\ hist.prior_used[k[2]] = Zero
          /\ RecogTable.likelihood[k] = <<1, 2>>
          /\ hist.unnorm[k] = <<1, 4>>

(* C8, as stated: a goal reached at the initial frame that is no stopping   *)
(* goal has likelihood 0 and goal probability 0 under every factor.         *)
C8_Original_ReachedGoalHasZeroPosterior ==
    RecogPassed =>
        \A g \in Goals :
            (world[1].reached[g] /\ ~world[1].stopping[g]) =>
                \A i \in RecogH : /\ RecogTable.likelihood[<<g, i>>] = Zero
                                  /\ RecogTable.goals_probabilities[<<g, i>>] = Zero

(* C8, amended: such a goal has likelihood 0 under every factor; its goal   *)
(* probability is 0 under every factor except those whose unnormalised sum  *)
(* is zero in a pass of nonzero total mass, where it is the goal's prior.   *)
C8_ReachedGoalPosterior ==
    RecogPassed =>
        \A g \in Goals :
            (world[1].reached[g] /\ ~world[1].stopping[g]) =>
                \A i \in RecogH :
                    /\ RecogTable.likelihood[<<g, i>>] = Zero
                    /\ RecogTable.goals_probabilities[<<g, i>>] =
                          IF LastNormFactor # Zero
                             /\ RecogTable.occluded_factors_probabilities[i] = Zero
                          THEN RecogTable.goals_priors[g]
                          ELSE Zero

C8_Witness ==
    /\ RecogPassed
    /\ world[1].reached["g1"] /\ ~world[1].stopping["g1"]
    /\ world[1].gen[<<"g1", 1>>] = "one"
    /\ Len(cfg.factors) = 2
    /\ RecogTable.goals_probabilities[<<"g1", 1>>] = Zero
    /\ RecogTable.goals_probabilities[<<"g2", 1>>] = One
    /\ RecogTable.goals_probabilities[<<"g1", 2>>] = <<1, 2>>

-----------------------------------------------------------------------------
(* GOFIAgent.update_plan: src/gofi/agents/gofi_agent.py, lines 151-217.    *)
(* Spec follows one planning call: the tables are built, the agents of     *)
(* id_order are recognised one loop iteration at a time, the merged belief *)
(* is published and the rollouts of the search sample from it.             *)

(* self.agent_id of the planning agent (the ego) *)
EgoId == 0

(* previous_agent_id = None *)
NoAgent == -1

MaxOrderLen == 2

(* observation.frame, in the order of its keys *)
FrameChoices == {<<0>>, <<0, 1>>, <<0, 2, 1>>, <<0, 1, 11>>}

(* self._occlusions: the ids of the hidden elements *)
OcclusionChoices == {<<>>, <<11>>}

PlanPzChoices == {DefaultPz}

(* ids a caller-supplied order may name *)
OrderIds == {0, 1, 2, 3}

RECURSIVE SeqsUpTo(_, _)
SeqsUpTo(S, n) ==
    IF n = 0 THEN {<<>>}
    ELSE SeqsUpTo(S, n - 1) \cup {Append(q, x) : q \in {r \in SeqsUpTo(S, n - 1) : Len(r) = n - 1}, x \in S}

(* the belief_merging_order keyword argument *)
OrderChoices ==
    {[kind |-> "increasing_id", list |-> <<>>],
     [kind |-> "random", list |-> <<>>],
     [kind |-> "unknown", list |-> <<>>]}
    \cup {[kind |-> "list", list |-> q] : q \in SeqsUpTo(OrderIds, MaxOrderLen)}

Range(q) == {q[i] : i \in 1..Len(q)}

(* sorted(S) *)
RECURSIVE Sorted(_)
Sorted(S) ==
    IF S = {} THEN <<>>
    ELSE LET m == CHOOSE x \in S : \A y \in S : x <= y IN <<m>> \o Sorted(S \ {m})

(* the orders random.sample(list(S), len(S)) can return *)
OrderPermutations(S) == {q \in SeqsUpTo(S, Cardinality(S)) : Len(q) = Cardinality(S) /\ Range(q) = S}

(* the answers of the collaborators in the planning call: no goal is        *)
(* reached or blocked, every key is infeasible or has likelihood 1/2 or 1   *)
PlanOracles(factors) ==
    [reached : {Subset2Fun({})},
     stopping : {Subset2Fun({})},
     blocked : {Subset2Fun({})},
     gen : {f \in [Goals \X (1..Len(factors)) -> {"fail_cur", "half", "one"}] :
               \A i \in 1..Len(factors) : f[<<"g2", i>>] # "half"}]

NoOracle == [used |-> FALSE]

ObservedAgents == {1, 2, 11}

Init ==
    /\ pc = "start"
    /\ \E frame \in FrameChoices, occlusions \in OcclusionChoices, forced \in ForcedChoices,
          pz \in PlanPzChoices, order \in OrderChoices :
         cfg = [frame |-> frame, occlusions |-> occlusions, forced |-> forced, pz |-> pz,
                belief_merging_order |-> order,
                factors |-> CreateAllInstantiations(occlusions, forced)]
    /\ tables = <<>>
    /\ world = [a \in ObservedAgents |-> NoOracle]
    /\ merge = [id_order |-> <<>>, idx |-> 1, previous_agent_id |-> NoAgent, error |-> "none"]
    /\ rollout = NoRollout
    /\ tree = NoTree
    /\ hist = [log |-> <<>>]

(* lines 157-159: the agents that get a table *)
TableAgents(frame, occlusions) == (Range(frame) \ {EgoId}) \ Range(occlusions)

(* mutant of IdOrders: an unknown keyword is taken as "increasing_id" *)
IdOrders_DefaultIncreasing(order, agents) ==
    IF order.kind = "random" THEN OrderPermutations(agents)
    ELSE IF order.kind = "list" THEN {order.list}
    ELSE {Sorted(agents)}

(* lines 161-168: the orders the keyword allows; {} stands for ValueError *)
IdOrders(order, agents) ==
    IF order.kind = "increasing_id" THEN {Sorted(agents)}
    ELSE IF order.kind = "random" THEN OrderPermutations(agents)
    ELSE IF order.kind = "list" THEN {order.list}
    ELSE {}

(* lines 152-177: tables, id_order, and the plain search when nobody is seen *)
UpdatePlanBegin ==
    /\ pc = "start"
    /\ LET agents == TableAgents(cfg.frame, cfg.occlusions)
           orders == IdOrders(cfg.belief_merging_order, agents)
       IN /\ tables' = [a \in agents |-> OGoalsProbabilities(Goals, cfg.factors, cfg.pz)]
          /\ IF orders = {}
             THEN /\ pc' = "error"
                  /\ merge' = [merge EXCEPT !.error = "ValueError"]
             ELSE /\ \E q \in orders : merge' = [merge EXCEPT !.id_order = q]
                  /\ pc' = IF agents = {} THEN "returned" ELSE "merging"
    /\ UNCHANGED <<cfg, world, rollout, tree, hist>>

(* mutant of ChainPrior: the priors are not overwritten *)
ChainPrior_NoOverwrite(tabs, previous_agent_id, agent_id) ==
    tabs[agent_id].occluded_factors_priors

(* mutant of ChainPrior: the previous agent's priors are written *)
ChainPrior_PreviousPrior(tabs, previous_agent_id, agent_id) ==
    IF previous_agent_id # NoAgent
    THEN tabs[previous_agent_id].occluded_factors_priors
    ELSE tabs[agent_id].occluded_factors_priors

(* lines 186-188: the priors the agent's table holds when it is recognised *)
ChainPrior(tabs, previous_agent_id, agent_id) ==
    IF previous_agent_id # NoAgent
    THEN tabs[previous_agent_id].occluded_factors_probabilities
    ELSE tabs[agent_id].occluded_factors_priors

(* lines 186-196 for an agent that has a table *)
ChainStep(tabs, factors, previous_agent_id, agent_id, o) ==
    [tabs EXCEPT ![agent_id] =
        UpdateGoalsProbabilities(
            [@ EXCEPT !.occluded_factors_priors = ChainPrior(tabs, previous_agent_id, agent_id)],
            factors, o)]

(* one iteration of the loop of lines 180-197 *)
MergeStep ==
    /\ pc = "merging"
    /\ merge.idx <= Len(merge.id_order)
    /\ LET agent_id == merge.id_order[merge.idx]
       IN IF agent_id = EgoId
          THEN /\ merge' = [merge EXCEPT !.idx = @ + 1]
               /\ UNCHANGED <<pc, tables, world, hist>>
          ELSE IF agent_id \notin DOMAIN tables
          THEN /\ pc' = "error"
               /\ merge' = [merge EXCEPT !.error = "KeyError"]
               /\ UNCHANGED <<tables, world, hist>>
          ELSE /\ \E o \in PlanOracles(cfg.factors) :
                    /\ world[agent_id] \in {NoOracle, o}
                    /\ world' = [world EXCEPT ![agent_id] = o]
                    /\ tables' = ChainStep(tables, cfg.factors, merge.previous_agent_id,
                                           agent_id, o)
               /\ hist' = [hist EXCEPT !.log = Append(@,
                             [agent |-> agent_id,
                              prior_used |-> tables'[agent_id].occluded_factors_priors,
                              posterior |-> tables'[agent_id].occluded_factors_probabilities])]
               /\ merge' = [merge EXCEPT !.idx = @ + 1, !.previous_agent_id = agent_id]
               /\ pc' = pc
    /\ UNCHANGED <<cfg, rollout, tree>>

(* lines 199-204: the last agent's factor probabilities become the merged   *)
(* belief of every table                                                    *)
PublishMerged ==
    /\ pc = "merging"
    /\ merge.idx > Len(merge.id_order)
    /\ IF merge.previous_agent_id = NoAgent
       THEN /\ pc' = "error"
            /\ merge' = [merge EXCEPT !.error = "KeyError"]
            /\ UNCHANGED tables
       ELSE /\ tables' = [a \in DOMAIN tables |->
                  [tables[a] EXCEPT !.merged_occluded_factors_probabilities =
                      tables[merge.previous_agent_id].occluded_factors_probabilities]]
            /\ pc' = "merged"
            /\ UNCHANGED merge
    /\ UNCHANGED <<cfg, world, rollout, tree, hist>>

(* the table OMCTS._rollout samples the factor from: the first of          *)
(* predictions.items(), i.e. the first table agent in the frame's order     *)
FirstTableAgent(frame, tabs) ==
    frame[CHOOSE i \in 1..Len(frame) :
            /\ frame[i] \in DOMAIN tabs
            /\ \A j \in 1..(i - 1) : frame[j] \notin DOMAIN tabs]

(* mutant of SampleWeights: the table's own factor probabilities *)
SampleWeights_OwnMarginal(t) == t.occluded_factors_probabilities

(* ogoals_probabilities.py line 92: the weights of sample_occluded_factor *)
SampleWeights(t) == t.merged_occluded_factors_probabilities

(* what random.choices(population, weights) can return: an index of nonzero *)
(* weight; {} stands for its ValueError when the weights total zero         *)
RandomChoices(weights) == {i \in DOMAIN weights : weights[i] # Zero}

(* omcts.py lines 36-38: a rollout samples its occluded factor *)
RolloutSample ==
    /\ pc = "merged"
    /\ LET t == tables[FirstTableAgent(cfg.frame, tables)]
           choices == RandomChoices(SampleWeights(t))
       IN IF choices = {}
          THEN /\ pc' = "error"
               /\ merge' = [merge EXCEPT !.error = "ValueError"]
               /\ UNCHANGED rollout
          ELSE /\ \E i \in choices : rollout' = [used |-> TRUE, occluded_factor |-> i]
               /\ UNCHANGED <<pc, merge>>
    /\ UNCHANGED <<cfg, tables, world, tree, hist>>

(* predictions.items(): the agents that have a table, in the frame's order *)
IsTableAgent(a) == a \in DOMAIN tables
PredictionAgents == SelectSeq(cfg.frame, IsTableAgent)

(* sample_goals_given_factor (ogoals_probabilities.py lines 102-105): the   *)
(* goals random.choices can return for the factor, those of nonzero goal    *)
(* probability; {} stands for its ValueError                                *)
SampleGoalsGivenFactor(t, occluded_factor) ==
    {g \in DOMAIN t.goals_priors : t.goals_probabilities[<<g, occluded_factor>>] # Zero}

(* omcts.py lines 55-64: for every agent of the predictions a goal is       *)
(* sampled given the rollout's factor and its trajectory is looked up; the  *)
(* first call that raises ends the rollout, and the agents after it are     *)
(* not reached                                                              *)
RolloutSampleGoals ==
    /\ pc = "merged"
    /\ rollout.used
    /\ \E goals \in [DOMAIN tables -> Goals] :
         LET z == rollout.occluded_factor
             order == PredictionAgents
             outcome(a) ==
                 IF SampleGoalsGivenFactor(tables[a], z) = {} THEN "ValueError"
                 ELSE OptimalTrajectoryToGoalWithFactor(tables[a], <<goals[a], z>>)
             failing == {j \in 1..Len(order) : outcome(order[j]) # "traj"}
             first == IF failing = {} THEN Len(order) + 1
                      ELSE CHOOSE j \in failing : \A i \in failing : j <= i
             reached == {order[j] : j \in 1..Len(order) \cap 1..first}
         IN /\ \A a \in DOMAIN tables :
                 IF a \in reached /\ SampleGoalsGivenFactor(tables[a], z) # {}
                 THEN goals[a] \in SampleGoalsGivenFactor(tables[a], z)
                 ELSE goals[a] = "g1"
            /\ rollout' = [used |-> TRUE, occluded_factor |-> z,
                           goals |-> goals,
                           result |-> [a \in DOMAIN tables |->
                                          IF a \in reached THEN outcome(a)
                                          ELSE "not_reached"],
                           error |-> IF failing = {} THEN "none"
                                     ELSE outcome(order[first])]
    /\ pc' = "sampled"
    /\ UNCHANGED <<cfg, tables, world, merge, tree, hist>>

Next ==
    \/ UpdatePlanBegin
    \/ MergeStep
    \/ PublishMerged
    \/ RolloutSample
    \/ RolloutSampleGoals

Spec == Init /\ [][Next]_vars

-----------------------------------------------------------------------------
(* Claims about belief merging (under Spec).                               *)

NonEgo(a) == a # EgoId

(* the agents the loop has recognised so far, in the order it met them *)
ProcessedOrder == SelectSeq(SubSeq(merge.id_order, 1, merge.idx - 1), NonEgo)

(* the factor priors a table has when update_plan has just built it *)
OwnPriors == OGoalsProbabilities(Goals, cfg.factors, cfg.pz).occluded_factors_priors

AllZero(q) == \A i \in 1..Len(q) : q[i] = Zero

LastPosterior == hist.log[Len(hist.log)].posterior

(* C3: the agents are recognised in the visiting order (the ego skipped);   *)
(* the first is recognised with its own table's factor priors, every later  *)
(* one with the factor probabilities the agent before it ended with (which  *)
(* sum to 1 unless that agent's pass had zero mass).                        *)
C3_ChainUsesPreviousPosterior ==
    pc \in {"merging", "merged", "error"} =>
        /\ Len(hist.log) = Len(ProcessedOrder)
        /\ \A k \in 1..Len(hist.log) :
              /\ hist.log[k].agent = ProcessedOrder[k]
              /\ k = 1 => hist.log[k].prior_used = OwnPriors
              /\ k > 1 => /\ hist.log[k].prior_used = hist.log[k - 1].posterior
                          /\ ~AllZero(hist.log[k - 1].posterior)
                                => RSumSeq(hist.log[k].prior_used) = One

C3_Witness ==
    /\ pc = "merged"
    /\ Len(hist.log) = 2
    /\ hist.log[1].agent = 2 /\ hist.log[2].agent = 1
    /\ hist.log[1].prior_used = OwnPriors
    /\ hist.log[2].prior_used = hist.log[1].posterior
    /\ hist.log[2].prior_used # OwnPriors
    /\ hist.log[2].posterior # hist.log[2].prior_used
    /\ ~AllZero(hist.log[2].posterior)

(* C4: once the belief is merged, every table's merged factor probabilities *)
(* are the factor probabilities of the last agent recognised, and a factor  *)
(* sampled for a rollout has nonzero merged probability.                    *)
C4_MergedIsLastPosteriorAndSampled ==
    pc = "merged" =>
        /\ \A a \in DOMAIN tables :
              tables[a].merged_occluded_factors_probabilities = LastPosterior
        /\ rollout.used => LastPosterior[rollout.occluded_factor] # Zero

(* a sample the sampling table's own factor probabilities would never give *)
C4_Witness ==
    /\ pc = "merged"
    /\ rollout.used
    /\ Cardinality(DOMAIN tables) = 2
    /\ LET a == FirstTableAgent(cfg.frame, tables)
       IN /\ tables[a].occluded_factors_probabilities[rollout.occluded_factor] = Zero
          /\ tables[a].merged_occluded_factors_probabilities[rollout.occluded_factor] # Zero
          /\ a # merge.previous_agent_id

(* the chain of lines 179-200 run on tables tabs over a whole order: the    *)
(* factor probabilities of the last agent                                   *)
RECURSIVE ChainRun(_, _, _, _, _)
ChainRun(order, tabs, factors, previous_agent_id, w) ==
    IF order = <<>> THEN tabs[previous_agent_id].occluded_factors_probabilities
    ELSE ChainRun(Tail(order),
                  ChainStep(tabs, factors, previous_agent_id, Head(order), w[Head(order)]),
                  factors, Head(order), w)

(* the merged belief update_plan computes for the visiting order *)
MergedBeliefOf(order) ==
    ChainRun(order,
             [a \in TableAgents(cfg.frame, cfg.occlusions) |->
                 OGoalsProbabilities(Goals, cfg.factors, cfg.pz)],
             cfg.factors, NoAgent, world)

Reverse(q) == [i \in 1..Len(q) |-> q[Len(q) + 1 - i]]

TwoAgentsMerged ==
    /\ pc = "merged"
    /\ Len(hist.log) = 2
    /\ hist.log[1].agent # hist.log[2].agent
    /\ DOMAIN tables = {hist.log[1].agent, hist.log[2].agent}

DifferentLikelihoods ==
    tables[hist.log[1].agent].likelihood # tables[hist.log[2].agent].likelihood

(* C5, as stated: two agents of different likelihoods merged in the order   *)
(* [a, b] give another merged belief than merged in the order [b, a]; taken *)
(* here only where there are several factors and the merged belief gives    *)
(* each of them nonzero mass, so that no degenerate pass is what refutes it.*)
C5_Original_OrderAlwaysChangesMergedBelief ==
    (/\ TwoAgentsMerged
     /\ DifferentLikelihoods
     /\ Len(cfg.factors) > 1
     /\ \A i \in 1..Len(cfg.factors) : LastPosterior[i] # Zero) =>
        LastPosterior # MergedBeliefOf(Reverse(ProcessedOrder))

(* C5, amended: the two orders can give different merged beliefs, and they  *)
(* do so only when some factor is tagged force_visible or force_invisible;  *)
(* with untagged factors both orders give the same merged belief.           *)
C5_OrderMattersOnlyWithForcedFactors ==
    TwoAgentsMerged =>
        /\ LastPosterior = MergedBeliefOf(ProcessedOrder)
        /\ LastPosterior # MergedBeliefOf(Reverse(ProcessedOrder))
              => \E i \in 1..Len(cfg.factors) :
                    cfg.factors[i].force_visible \/ cfg.factors[i].force_invisible

C5_Witness ==
    /\ TwoAgentsMerged
    /\ DifferentLikelihoods
    /\ LastPosterior # MergedBeliefOf(Reverse(ProcessedOrder))
    /\ ~AllZero(LastPosterior)
    /\ ~AllZero(MergedBeliefOf(Reverse(ProcessedOrder)))

(* C6, as stated: when the chain has run, exactly the agents of the frame   *)
(* other than the ego and the hidden elements have a table, and each of     *)
(* them was recognised exactly once, whatever the visiting order.           *)
C6_EveryObservedAgentRecognisedOnce ==
    pc \in {"merged", "returned"} =>
        /\ DOMAIN tables = TableAgents(cfg.frame, cfg.occlusions)
        /\ \A a \in DOMAIN tables :
              Cardinality({k \in 1..Len(hist.log) : hist.log[k].agent = a}) = 1

(* the same for the two keyword orders only; this holds *)
C6_HoldsForKeywordOrders ==
    cfg.belief_merging_order.kind \in {"increasing_id", "random"}
        => C6_EveryObservedAgentRecognisedOnce

RECURSIVE RProdOver(_, _)
RProdOver(f, S) ==
    IF S = {} THEN One
    ELSE LET x == CHOOSE y \in S : TRUE IN RMul(f[x], RProdOver(f, S \ {x}))

(* the likelihood of factor i for agent a, weighted by the goal priors:     *)
(* the sum over the goals of likelihood * goal prior, from a's table        *)
GoalWeightedLikelihood(a, i) ==
    RSumOver([g \in Goals |-> RMul(tables[a].likelihood[<<g, i>>],
                                    tables[a].goals_priors[g])], Goals)

(* the initial prior of factor i times the product over the agents of their *)
(* goal-weighted likelihoods of i                                           *)
PriorTimesLikelihoods(i) ==
    RMul(OwnPriors[i],
         RProdOver([a \in DOMAIN tables |-> GoalWeightedLikelihood(a, i)], DOMAIN tables))

(* that product normalised over the factors; all zero when it sums to zero *)
ProductBelief ==
    LET total == RSumSeq([i \in 1..Len(cfg.factors) |-> PriorTimesLikelihoods(i)])
    IN [i \in 1..Len(cfg.factors) |->
           IF total = Zero THEN Zero ELSE RDiv(PriorTimesLikelihoods(i), total)]

NoFactorTagged ==
    \A i \in 1..Len(cfg.factors) :
        ~cfg.factors[i].force_visible /\ ~cfg.factors[i].force_invisible

(* the belief is merged and the agents recognised were, each once, the      *)
(* agents that have a table                                                 *)
MergedOverTableAgents ==
    /\ pc = "merged"
    /\ Range(ProcessedOrder) = DOMAIN tables
    /\ Len(ProcessedOrder) = Cardinality(DOMAIN tables)

(* C26: with no factor tagged force_visible or force_invisible, the merged  *)
(* factor probabilities are the initial factor priors times the product     *)
(* over the agents of their goal-weighted likelihoods, normalised (all zero *)
(* when that product is zero for every factor), and every order of the      *)
(* same agents gives the same merged probabilities.                         *)
C26_MergedBeliefIsProductWhateverTheOrder ==
    (MergedOverTableAgents /\ NoFactorTagged) =>
        /\ LastPosterior = ProductBelief
        /\ \A q \in OrderPermutations(DOMAIN tables) : MergedBeliefOf(q) = LastPosterior

(* two agents of different likelihoods, each changing the belief *)
C26_Witness ==
    /\ MergedOverTableAgents
    /\ NoFactorTagged
    /\ Len(hist.log) = 2
    /\ Len(cfg.factors) = 2
    /\ DifferentLikelihoods
    /\ hist.log[1].posterior # OwnPriors
    /\ hist.log[2].posterior # hist.log[1].posterior
    /\ LastPosterior # OwnPriors
    /\ \A i \in 1..2 : LastPosterior[i] # Zero
    /\ \A a \in DOMAIN tables :
          GoalWeightedLikelihood(a, 1) # GoalWeightedLikelihood(a, 2)

(* sample_occluded_factor raised: the merged factor probabilities are all   *)
(* zero (an unknown order keyword never gets as far as a rollout)           *)
FactorSamplingFailed ==
    /\ pc = "error"
    /\ merge.error = "ValueError"
    /\ cfg.belief_merging_order.kind # "unknown"

(* C27, as stated: after a completed merge a rollout's sampling never       *)
(* fails: a factor is sampled, and for every agent with a table a goal is   *)
(* sampled given the factor and its trajectory is found in the table.       *)
C27_RolloutSamplingNeverFails ==
    /\ ~FactorSamplingFailed
    /\ pc = "sampled" =>
          /\ rollout.error = "none"
          /\ \A a \in DOMAIN tables : rollout.result[a] = "traj"

(* the same for the agent recognised last, whose factor probabilities are   *)
(* the merged ones, once a factor was sampled; this holds                   *)
C27_HoldsForLastRecognisedAgent ==
    pc = "sampled" => rollout.result[merge.previous_agent_id] \in {"traj", "not_reached"}

(* the same for every agent when no factor is tagged and every agent with   *)
(* a table was recognised, once a factor was sampled; this holds            *)
C27_HoldsWithoutForceFlags ==
    (pc = "sampled" /\ NoFactorTagged /\ Range(ProcessedOrder) = DOMAIN tables)
        => (rollout.error = "none" /\ \A a \in DOMAIN tables : rollout.result[a] = "traj")

(* a recognised agent whose marginal for the sampled force_visible factor   *)
(* is zero: the goal sampled from the goal priors has no trajectory         *)
C27_ForceVisibleFactorFails ==
    /\ pc = "sampled"
    /\ Range(ProcessedOrder) = DOMAIN tables
    /\ cfg.factors[rollout.occluded_factor].force_visible
    /\ \E a \in DOMAIN tables :
          /\ tables[a].occluded_factors_probabilities[rollout.occluded_factor] = Zero
          /\ rollout.result[a] = "IndexError"

-----------------------------------------------------------------------------
(* The search tree with the super-root (planning/otree.py) and the part of  *)
(* a rollout that picks its branch (planning/omcts.py).  Specification      *)
(* SpecTree: one tree over the factors of a set of occluded elements and a  *)
(* sequence of rollouts, each sampling a factor, calling set_occlusions and *)
(* ending with backprop.  The action policy is the library's; it returns    *)
(* one of the actions of the node it is given, and which one is left open.  *)

MaxRollouts == 4

(* the planning calls followed on one agent *)
MaxCalls == 2

TreeElementChoices == {<<>>, <<11>>, <<11, 12>>}

(* an action of the super-root: the string "Root" or a factor, which        *)
(* str() renders by its elements and presence (OccludedFactor.__repr__)     *)
RootAction == [name |-> "Root", elements |-> <<>>, presence |-> <<>>]

SuperKey == [name |-> "Super", elements |-> <<>>, presence |-> <<>>]

ActionOf(f) ==
    IF no_occlusions(f) THEN RootAction
    ELSE [name |-> "OF", elements |-> f.elements, presence |-> f.presence]

(* the constructor: the super-root's actions and visit counts, the nodes    *)
(* ("Super",) and ("Super", "Root"), the current root at the super-root;    *)
(* nodes maps the second token of each branch node's key to the factor its  *)
(* state was built from (0 for the frame the tree was created with)         *)
OTreeInit(occluded_factors) ==
    [actions |-> [i \in 1..Len(occluded_factors) |-> ActionOf(occluded_factors[i])],
     action_visits |-> [i \in 1..Len(occluded_factors) |-> 0],
     q_updates |-> [i \in 1..Len(occluded_factors) |-> 0],
     state_visits |-> 0,
     nodes |-> [k \in {RootAction} |-> 0],
     root |-> SuperKey]

(* list.index: the first position of x in q *)
IndexOf(q, x) == CHOOSE i \in 1..Len(q) : q[i] = x /\ \A j \in 1..(i - 1) : q[j] # x

PickAction_AlwaysRoot(actions, occluded_factor) == IndexOf(actions, RootAction)

(* the deterministic path: the index pick_action counts a visit for *)
PickAction(actions, occluded_factor) == IndexOf(actions, ActionOf(occluded_factor))

(* mutant of Deterministic: Root's visit count is not looked at *)
Deterministic_RootVisitsIgnored(t, occluded_factor, allow_hide_occluded) ==
    \/ no_occlusions(occluded_factor)
    \/ ~allow_hide_occluded

(* whether set_occlusions takes the deterministic path for the factor *)
Deterministic(t, occluded_factor, allow_hide_occluded) ==
    \/ no_occlusions(occluded_factor)
    \/ t.action_visits[IndexOf(t.actions, RootAction)] = 0
    \/ ~allow_hide_occluded

(* the indices of the actions set_occlusions may select for the factor *)
SelectableActions(t, occluded_factor, allow_hide_occluded) ==
    IF Deterministic(t, occluded_factor, allow_hide_occluded)
    THEN {PickAction(t.actions, occluded_factor)}
    ELSE 1..Len(t.actions)

HideOccluded_WheneverRootSelected(allow_hide_occluded, occluded_factor, action) ==
    allow_hide_occluded /\ action = RootAction

(* line 71 *)
HideOccluded(allow_hide_occluded, occluded_factor, action) ==
    allow_hide_occluded /\ ~no_occlusions(occluded_factor) /\ action = RootAction

(* mutant of SetOcclusionsTree: the selected action's visit is not counted  *)
(* unless the action is the factor's own                                    *)
SetOcclusionsTree_OnlyOwnVisitCounted(t, i, idx) ==
    LET key == t.actions[idx]
    IN [t EXCEPT !.state_visits = @ + 1,
                 !.action_visits[idx] = IF idx = i THEN @ + 1 ELSE @,
                 !.nodes = IF key \in DOMAIN t.nodes THEN @
                           ELSE [k \in DOMAIN t.nodes \cup {key} |->
                                    IF k = key THEN i ELSE t.nodes[k]],
                 !.root = key]

(* the tree after set_occlusions selected the action of index idx for the   *)
(* factor of index i                                                        *)
SetOcclusionsTree(t, i, idx) ==
    LET key == t.actions[idx]
    IN [t EXCEPT !.state_visits = @ + 1,
                 !.action_visits[idx] = @ + 1,
                 !.nodes = IF key \in DOMAIN t.nodes THEN @
                           ELSE [k \in DOMAIN t.nodes \cup {key} |->
                                    IF k = key THEN i ELSE t.nodes[k]],
                 !.root = key]

(* the ids of the frame the search is given: the ego and agent 1, and in    *)
(* the second choice also agent 11, which was occluded when the hidden      *)
(* elements were recorded and is visible now                                *)
TreeFrameChoices == {{0, 1}, {0, 1, 11}}

(* ORollout.__init__: the simulator; an agent or initial state is "frame"   *)
(* when it was made from the initial frame and "element" when it is a       *)
(* hidden element's; occluded_factor is a factor index, 0 for None          *)
ORolloutInit(initial_frame) ==
    [initial_frame_agents |-> initial_frame,
     agents |-> [aid \in initial_frame |-> "frame"],
     initial_frame |-> [aid \in initial_frame |-> "frame"],
     occluded_factor |-> 0,
     hide_occluded |-> FALSE]

(* ORollout.set_occluded_factor, for the factor of index i *)
SetOccludedFactor(sim, occluded_factor, i) ==
    LET present == present_elements(occluded_factor)
        put(d) == [aid \in DOMAIN d \cup present |->
                      IF aid \in present THEN "element" ELSE d[aid]]
    IN [sim EXCEPT !.occluded_factor = i,
                   !.agents = put(sim.agents),
                   !.initial_frame = put(sim.initial_frame)]

(* ORollout.hide_occluded, called when set_occlusions returned true *)
SimHideOccluded(sim, hide) == IF hide THEN [sim EXCEPT !.hide_occluded = TRUE] ELSE sim

(* ORollout.reset *)
ORolloutReset(sim) ==
    [sim EXCEPT !.occluded_factor = 0,
                !.agents = [aid \in DOMAIN sim.agents \cap sim.initial_frame_agents |->
                               sim.agents[aid]],
                !.initial_frame = [aid \in DOMAIN sim.initial_frame
                                            \cap sim.initial_frame_agents |->
                                      sim.initial_frame[aid]],
                !.hide_occluded = FALSE]

TreeInit ==
    /\ pc = "rollout"
    /\ \E elements \in TreeElementChoices, allow \in BOOLEAN, frame \in TreeFrameChoices :
         LET factors == CreateAllInstantiations(elements, {})
         IN /\ cfg = [factors |-> factors, allow_hide_occluded |-> allow, frame |-> frame,
                       call |-> 1]
            /\ tree = OTreeInit(factors)
            /\ world = ORolloutInit(frame)
    /\ rollout = [used |-> FALSE, k |-> 0]
    /\ hist = [calls |-> 0]
    /\ tables = <<>>
    /\ merge = NoMerge

(* _rollout lines 36-50: a factor is sampled, the tree picks the branch and *)
(* the simulator hides the occluded elements when told to                   *)
SetOcclusions ==
    /\ pc = "rollout"
    /\ rollout.k < MaxRollouts
    /\ \E i \in 1..Len(cfg.factors) :
         \E idx \in SelectableActions(tree, cfg.factors[i], cfg.allow_hide_occluded) :
            /\ tree' = SetOcclusionsTree(tree, i, idx)
            /\ world' = SimHideOccluded(
                            SetOccludedFactor(world, cfg.factors[i], i),
                            HideOccluded(cfg.allow_hide_occluded, cfg.factors[i],
                                         tree.actions[idx]))
            /\ rollout' = [used |-> TRUE,
                           k |-> rollout.k,
                           occluded_factor |-> i,
                           root_visits_before |->
                               tree.action_visits[IndexOf(tree.actions, RootAction)],
                           action_visits_before |-> tree.action_visits,
                           action |-> tree.actions[idx],
                           policy |-> ~Deterministic(tree, cfg.factors[i],
                                                     cfg.allow_hide_occluded),
                           hide_occluded |-> HideOccluded(cfg.allow_hide_occluded,
                                                          cfg.factors[i], tree.actions[idx])]
    /\ hist' = [calls |-> hist.calls + 1]
    /\ pc' = "simulation"
    /\ UNCHANGED <<cfg, tables, merge>>

(* to_key (omcts.py lines 99-106): the second token of every key of the     *)
(* rollout in progress, "Root" or the string of the current factor          *)
ToKeyBranch(current_occluded_factor, hide_occluded) ==
    IF ~no_occlusions(current_occluded_factor) /\ ~hide_occluded
    THEN ActionOf(current_occluded_factor)
    ELSE RootAction

(* the tree after backprop(r, final_key): the current root is the           *)
(* super-root again and the walk up final_key ends with the value of the    *)
(* super-root's action named by the key's second token being updated;       *)
(* q_updates counts the updates of each action's value                      *)
BackpropTree(t, branch) ==
    [t EXCEPT !.root = SuperKey,
              !.q_updates[IndexOf(t.actions, branch)] = @ + 1]

(* backprop at the end of the rollout's simulation, with the final key the  *)
(* simulation got from to_key                                               *)
Backprop ==
    /\ pc = "simulation"
    /\ LET branch == ToKeyBranch(cfg.factors[rollout.occluded_factor],
                                 rollout.hide_occluded)
       IN /\ tree' = BackpropTree(tree, branch)
          /\ rollout' = [rollout EXCEPT !.k = @ + 1]
          /\ hist' = [calls |-> hist.calls,
                      root_during_simulation |-> tree.root,
                      q_updates_before |-> tree.q_updates,
                      value_updated |-> branch,
                      value_update_visits |->
                          tree.action_visits[IndexOf(tree.actions, branch)]]
    /\ pc' = "reset"
    /\ UNCHANGED <<cfg, tables, world, merge>>

(* the simulator is reset after the rollout, before the next one *)
SimulatorReset ==
    /\ pc = "reset"
    /\ world' = ORolloutReset(world)
    /\ pc' = "rollout"
    /\ UNCHANGED <<cfg, tables, merge, rollout, tree, hist>>

(* the actions of a branch node are macro actions, not factors *)
MacroAction == [name |-> "MacroAction", elements |-> <<>>, presence |-> <<>>]

(* the actions a policy can return when given the tree's current root *)
RootNodeActions(t) ==
    IF t.root = SuperKey THEN {t.actions[j] : j \in 1..Len(t.actions)}
    ELSE {MacroAction}

SelectPlanTree_RootLeftAtBranch(t, next_action) == [t EXCEPT !.root = next_action]

(* select_plan lines 84-86 when the branch node exists: the plan is read    *)
(* with the branch node as root, then the root is the super-root again      *)
SelectPlanTree(t, next_action) == [t EXCEPT !.root = SuperKey]

(* OTree.select_plan, called by the search after its rollouts; the plan     *)
(* policy returns one of the super-root's actions and the lookup of line 84 *)
(* raises KeyError when that branch has no node                             *)
SelectPlan ==
    /\ pc = "rollout"
    /\ rollout.used
    /\ \E next_action \in RootNodeActions(tree) :
         IF next_action \in DOMAIN tree.nodes
         THEN /\ tree' = SelectPlanTree(tree, next_action)
              /\ merge' = [used |-> TRUE, next_action |-> next_action,
                           plan_root |-> next_action, error |-> "none"]
              /\ pc' = "planned"
         ELSE /\ merge' = [used |-> TRUE, next_action |-> next_action,
                           plan_root |-> SuperKey, error |-> "KeyError"]
              /\ pc' = "error"
              /\ UNCHANGED tree
    /\ UNCHANGED <<cfg, tables, world, rollout, hist>>

(* update_plan lines 213-216: the plan policy is asked again, at the root   *)
(* the tree was left with, and a factor it returns becomes the agent's      *)
(* current factor                                                           *)
SelectCurrentFactor ==
    /\ pc = "planned"
    /\ \E occluded_factor \in RootNodeActions(tree) :
         merge' = [used |-> TRUE, next_action |-> merge.next_action,
                   plan_root |-> merge.plan_root, error |-> "none",
                   selected |-> occluded_factor,
                   current_occluded_factor |->
                       IF occluded_factor.name = "OF" THEN occluded_factor
                       ELSE RootAction,
                   chosen_in_call |-> cfg.call]
    /\ pc' = "done"
    /\ UNCHANGED <<cfg, tables, world, rollout, tree, hist>>

(* the next update_plan call on the agent, with an observation in which an  *)
(* agent is seen: the factors are enumerated again, line 204 sets the       *)
(* current factor to None and the search starts on a new tree and a new     *)
(* simulator                                                                *)
UpdatePlanAgain ==
    /\ pc = "done"
    /\ cfg.call < MaxCalls
    /\ cfg' = [cfg EXCEPT !.call = @ + 1]
    /\ tree' = OTreeInit(cfg.factors)
    /\ world' = ORolloutInit(cfg.frame)
    /\ rollout' = [used |-> FALSE, k |-> 0]
    /\ hist' = [calls |-> 0]
    /\ merge' = NoMerge
    /\ pc' = "rollout"
    /\ UNCHANGED tables

(* the next update_plan call with an observation in which no agent is seen: *)
(* no table is built and lines 170-177 run the plain search and return;     *)
(* line 204 is not reached and the current factor stays as it was           *)
UpdatePlanNoAgents ==
    /\ pc = "done"
    /\ cfg.call < MaxCalls
    /\ cfg' = [cfg EXCEPT !.call = @ + 1]
    /\ pc' = "returned"
    /\ UNCHANGED <<tables, world, merge, rollout, tree, hist>>

TreeNext ==
    \/ SetOcclusions
    \/ Backprop
    \/ SimulatorReset
    \/ SelectPlan
    \/ SelectCurrentFactor
    \/ UpdatePlanAgain
    \/ UpdatePlanNoAgents

SpecTree == TreeInit /\ [][TreeNext]_vars

(* the factor the rollout in progress sampled *)
SampledFactor == cfg.factors[rollout.occluded_factor]

(* the rollout in progress went through the policy branch of line 58 *)
RootVisitedAndOccluded ==
    /\ pc = "simulation"
    /\ ~no_occlusions(SampledFactor)
    /\ rollout.root_visits_before > 0

(* C9, as stated: called for an occluded factor once Root has been visited, *)
(* set_occlusions makes the factor's own branch or the Root branch the      *)
(* current root, and the factor's own branch when hiding is not allowed.    *)
C9_SelectsOwnBranchOrRoot ==
    RootVisitedAndOccluded =>
        /\ tree.root \in {ActionOf(SampledFactor), RootAction}
        /\ ~cfg.allow_hide_occluded => tree.root = ActionOf(SampledFactor)

(* the second half of C9 alone; this holds *)
C9_OwnBranchWhenHidingNotAllowed ==
    (RootVisitedAndOccluded /\ ~cfg.allow_hide_occluded)
        => tree.root = ActionOf(SampledFactor)

(* a branch node of one factor created with the frame of another *)
C9_NoBranchBuiltFromAnotherFactor ==
    \A k \in DOMAIN tree.nodes :
        tree.nodes[k] # 0 => k = ActionOf(cfg.factors[tree.nodes[k]])

(* C10: set_occlusions returns true exactly when hiding is allowed, the     *)
(* sampled factor is occluded and the branch made the current root is Root; *)
(* the simulator then runs with the factor hidden; without the permission   *)
(* it never returns true, however often Root was visited.                   *)
C10_HideOccludedExactlyWhenRootChosen ==
    pc = "simulation" =>
        /\ rollout.hide_occluded <=>
              (/\ cfg.allow_hide_occluded
               /\ ~no_occlusions(SampledFactor)
               /\ tree.root = RootAction)
        /\ ~cfg.allow_hide_occluded => ~rollout.hide_occluded

C10_Witness ==
    /\ pc = "simulation"
    /\ rollout.hide_occluded
    /\ rollout.root_visits_before > 1
    /\ tree.root = RootAction
    /\ present_elements(SampledFactor) # {}

(* Root is chosen for the no-occlusion factor and nothing is hidden *)
C10_WitnessRootNotHidden ==
    /\ pc = "simulation"
    /\ cfg.allow_hide_occluded
    /\ tree.root = RootAction
    /\ ~rollout.hide_occluded

(* the call in progress took the deterministic path of lines 52-54 *)
NoOcclusionOrRootUnvisited ==
    /\ pc = "simulation"
    /\ no_occlusions(SampledFactor) \/ rollout.root_visits_before = 0

(* C11: called with the no-occlusion factor (whatever the visit counts), or *)
(* while Root has never been visited, set_occlusions selects Root for the   *)
(* no-occlusion factor and the factor's own action otherwise, adds exactly  *)
(* one visit to that action and to no other, and returns false.             *)
C11_DeterministicSelection ==
    NoOcclusionOrRootUnvisited =>
        LET own == IF no_occlusions(SampledFactor) THEN RootAction
                   ELSE [name |-> "OF", elements |-> SampledFactor.elements,
                         presence |-> SampledFactor.presence]
        IN /\ rollout.action = own
           /\ tree.root = own
           /\ \A j \in 1..Len(tree.actions) :
                 tree.action_visits[j] =
                     rollout.action_visits_before[j]
                         + (IF tree.actions[j] = own THEN 1 ELSE 0)
           /\ ~rollout.hide_occluded

(* an occluded factor sampled before Root was ever visited, after other     *)
(* rollouts, with hiding allowed                                            *)
C11_Witness ==
    /\ NoOcclusionOrRootUnvisited
    /\ cfg.allow_hide_occluded
    /\ ~no_occlusions(SampledFactor)
    /\ rollout.k > 0
    /\ tree.root # RootAction

(* the no-occlusion factor sampled after Root and other branches were visited *)
C11_WitnessNoOcclusion ==
    /\ NoOcclusionOrRootUnvisited
    /\ cfg.allow_hide_occluded
    /\ no_occlusions(SampledFactor)
    /\ rollout.root_visits_before > 1
    /\ \E j \in 1..Len(tree.actions) :
          tree.actions[j] # RootAction /\ rollout.action_visits_before[j] > 0

(* a rollout has just ended with backprop *)
RolloutEnded == pc = "rollout" /\ rollout.used

(* C12, as stated: after backprop the current root is the super-root,       *)
(* whichever branch node it was during the simulation, and the rollout has  *)
(* added exactly one visit and exactly one value update to the super-root's *)
(* action of the branch set_occlusions chose, and to no other action.       *)
C12_ChosenBranchUpdatedOnce ==
    RolloutEnded =>
        /\ tree.root = SuperKey
        /\ \A j \in 1..Len(tree.actions) :
              LET chosen == IF tree.actions[j] = rollout.action THEN 1 ELSE 0
              IN /\ tree.action_visits[j] = rollout.action_visits_before[j] + chosen
                 /\ tree.q_updates[j] = hist.q_updates_before[j] + chosen

(* the same where the branch chosen is the sampled factor's own or Root;    *)
(* this holds                                                               *)
C12_HoldsForOwnBranchOrRoot ==
    (RolloutEnded /\ rollout.action \in {ActionOf(SampledFactor), RootAction})
        => C12_ChosenBranchUpdatedOnce

(* the value updated is always that of an action visited before: no update  *)
(* divides by a visit count of 0; this fails with the policy's free choice  *)
C12_ValueUpdateHasVisits == RolloutEnded => hist.value_update_visits > 0

(* the ids of the hidden elements the factors are built over *)
HiddenElements == {cfg.factors[1].elements[j] : j \in 1..Len(cfg.factors[1].elements)}
                      \ {NoElement}

(* the simulator holds a hidden element's agent or initial state *)
SimHasElement == \/ \E aid \in DOMAIN world.agents : world.agents[aid] = "element"
                 \/ \E aid \in DOMAIN world.initial_frame :
                       world.initial_frame[aid] = "element"

(* C14, as stated: once the simulator is reset after a rollout its hide     *)
(* flag is false and its agents and initial frame are those of the original *)
(* initial frame and hold no hidden element; during a rollout it holds a    *)
(* hidden element only if this rollout's factor has it present, and hides   *)
(* only if this rollout's set_occlusions said so.                           *)
C14_HidingAndElementsLastOneRollout ==
    /\ RolloutEnded =>
          /\ ~world.hide_occluded
          /\ DOMAIN world.agents = cfg.frame
          /\ DOMAIN world.initial_frame = cfg.frame
          /\ ~SimHasElement
    /\ pc = "simulation" =>
          /\ world.hide_occluded = rollout.hide_occluded
          /\ \A aid \in DOMAIN world.agents :
                world.agents[aid] = "element" => aid \in present_elements(SampledFactor)

(* the same when no hidden element is in the frame the search is given;     *)
(* this holds                                                               *)
C14_HoldsWhenNoElementInFrame ==
    (HiddenElements \cap cfg.frame = {}) => C14_HidingAndElementsLastOneRollout

(* the flag and the ids alone, whatever the frame; this holds *)
C14_FlagAndIdsReset ==
    RolloutEnded =>
        /\ ~world.hide_occluded
        /\ DOMAIN world.agents = cfg.frame
        /\ DOMAIN world.initial_frame = cfg.frame

(* C13: select_plan takes the branch from the plan policy's choice among   *)
(* the super-root's actions, reads the plan with that branch's node as the  *)
(* root, and leaves the current root at the super-root, so that the plan    *)
(* policy asked again at tree.root returns one of the super-root's actions. *)
C13_SelectPlanWithinBranchThenSuperRoot ==
    /\ pc \in {"planned", "done"} =>
          /\ tree.root = SuperKey
          /\ \E j \in 1..Len(tree.actions) : tree.actions[j] = merge.next_action
          /\ merge.plan_root = merge.next_action
          /\ merge.plan_root \in DOMAIN tree.nodes
    /\ pc = "done" =>
          \E j \in 1..Len(tree.actions) : tree.actions[j] = merge.selected

(* a factor's branch was chosen for the plan and a factor was selected *)
C13_Witness ==
    /\ pc = "done"
    /\ merge.plan_root.name = "OF"
    /\ merge.selected.name = "OF"
    /\ merge.current_occluded_factor = merge.selected
    /\ rollout.k > 1

(* the rollout in progress asked the action policy at the super-root        *)
(* (select_action, line 58)                                                 *)
PolicyConsulted == pc = "simulation" /\ rollout.policy

(* C24, as stated: the action policy is consulted at the super-root only    *)
(* when every action of the super-root has been visited at least once.      *)
C24_Original_PolicyOnlyAfterEveryBranchVisited ==
    PolicyConsulted =>
        \A j \in 1..Len(tree.actions) : rollout.action_visits_before[j] > 0

(* C24, amended: the action policy is consulted at the super-root exactly   *)
(* in the rollouts whose sampled factor is occluded, with hiding allowed,   *)
(* after the Root action has been visited at least once; the branches of    *)
(* the occluded factors need not have been visited.                         *)
C24_PolicyOnlyAfterRootVisited ==
    pc = "simulation" =>
        (rollout.policy <=>
            (/\ rollout.root_visits_before > 0
             /\ ~no_occlusions(SampledFactor)
             /\ cfg.allow_hide_occluded))

(* the policy is consulted in the second rollout, when no branch but Root   *)
(* has been visited                                                         *)
C24_Witness ==
    /\ PolicyConsulted
    /\ rollout.k = 1
    /\ Len(tree.actions) = 4
    /\ \A j \in 1..Len(tree.actions) :
          rollout.action_visits_before[j] = (IF tree.actions[j] = RootAction THEN 1 ELSE 0)

(* C25, as stated: during a rollout the second token of every key to_key    *)
(* makes is the string of the sampled factor when the factor is occluded    *)
(* and not hidden and Root otherwise, and it is the key of the branch node  *)
(* set_occlusions made the current root.                                    *)
C25_KeyPrefixIsCurrentRoot ==
    pc = "simulation" =>
        LET token == ToKeyBranch(SampledFactor, rollout.hide_occluded)
        IN /\ token = IF ~no_occlusions(SampledFactor) /\ ~rollout.hide_occluded
                      THEN [name |-> "OF", elements |-> SampledFactor.elements,
                            presence |-> SampledFactor.presence]
                      ELSE RootAction
           /\ token = tree.root

(* the same in the rollouts where set_occlusions chose the sampled factor's *)
(* own branch or Root; this holds                                           *)
C25_HoldsForOwnBranchOrRoot ==
    (pc = "simulation" /\ rollout.action \in {ActionOf(SampledFactor), RootAction})
        => C25_KeyPrefixIsCurrentRoot

(* select_plan has asked the plan policy at the super-root *)
PlanBranchChosen == pc \in {"planned", "done", "error"} /\ merge.used

(* C28, as stated: the branch select_plan chooses at the super-root has a   *)
(* node in the tree, and the lookup of line 84 never fails.                 *)
C28_ChosenPlanBranchHasNode ==
    PlanBranchChosen =>
        /\ merge.error = "none"
        /\ merge.next_action \in DOMAIN tree.nodes

(* a branch that a rollout visited has a node and its lookup does not fail; *)
(* this holds                                                               *)
C28_HoldsForVisitedBranches ==
    (PlanBranchChosen /\ tree.action_visits[IndexOf(tree.actions, merge.next_action)] > 0)
        => (merge.error = "none" /\ merge.next_action \in DOMAIN tree.nodes)

RECURSIVE SumSeq(_)
SumSeq(q) == IF q = <<>> THEN 0 ELSE Head(q) + SumSeq(Tail(q))

(* C29: at any time the super-root's state_visits is the number of          *)
(* set_occlusions calls made on the tree and the sum of the super-root's    *)
(* action_visits, whichever path each call took.                            *)
C29_StateVisitsCountCalls ==
    /\ tree.state_visits = hist.calls
    /\ tree.state_visits = SumSeq(tree.action_visits)

(* four calls, the last on the policy path with an action that is neither   *)
(* the sampled factor's nor Root, and backprop and select_plan done since   *)
C29_Witness ==
    /\ pc \in {"planned", "done"}
    /\ hist.calls = 4
    /\ rollout.policy
    /\ rollout.action \notin {ActionOf(SampledFactor), RootAction}
    /\ tree.state_visits = 4
    /\ \E j \in 1..Len(tree.actions) : tree.action_visits[j] > 1

(* an update_plan call has returned *)
UpdatePlanReturned == pc \in {"done", "returned"}

(* the agent's _current_occluded_factor is None (the plan policy's answer   *)
(* "Root" is no factor and leaves it None)                                  *)
CurrentFactorIsNone == merge.current_occluded_factor = RootAction

(* C30, as stated: when an update_plan call has returned, the agent's       *)
(* current factor is None or a factor enumerated in that call and chosen at *)
(* the super-root in that call, also when no agent was seen in the call.    *)
C30_CurrentFactorIsOfTheCallReturned ==
    UpdatePlanReturned =>
        \/ CurrentFactorIsNone
        \/ /\ merge.chosen_in_call = cfg.call
           /\ \E j \in 1..Len(tree.actions) :
                 tree.actions[j] = merge.current_occluded_factor

(* the same for the calls in which an agent was seen; this holds *)
C30_HoldsWhenAnAgentIsSeen ==
    pc = "done" => C30_CurrentFactorIsOfTheCallReturned

(* in a call in which an agent is seen the current factor is None while the *)
(* search runs; this holds                                                  *)
C30_NoneDuringTheSearch ==
    pc \in {"rollout", "simulation", "reset"} => "current_occluded_factor" \notin DOMAIN merge

-----------------------------------------------------------------------------
(* More claims about recognition passes (under SpecRecog).                  *)

(* two passes have run on the table and its priors were not written between *)
(* them: the second pass had the table and the observation of the first     *)
SecondPassUnchangedInput ==
    /\ pc = "recog"
    /\ hist.passes = 2
    /\ hist.writes_at_pass[1] = hist.writes_at_pass[2]

(* C15: a second pass on the same table with the same observation leaves    *)
(* every goal posterior and every factor probability as the first pass left *)
(* it (hist.before is the table as the second pass found it).               *)
C15_SecondPassReproducesPosteriors ==
    SecondPassUnchangedInput =>
        /\ RecogTable.goals_probabilities = hist.before.goals_probabilities
        /\ RecogTable.occluded_factors_probabilities
              = hist.before.occluded_factors_probabilities
        /\ RecogTable.likelihood = hist.before.likelihood

(* the second pass found optimum trajectories cached, and the posterior it  *)
(* reproduced is not the prior and gives mass to several factors            *)
C15_Witness ==
    /\ SecondPassUnchangedInput
    /\ Len(cfg.factors) = 2
    /\ \A k \in DOMAIN RecogTable.goals_probabilities :
          hist.before.optimum_trajectory[k] = "traj"
    /\ RecogTable.occluded_factors_probabilities # RecogTable.occluded_factors_priors
    /\ \A i \in RecogH : RecogTable.occluded_factors_probabilities[i] # Zero

(* C16: asked for a key that the most recent pass on the table found       *)
(* infeasible (goal reached or blocked) or for which trajectory generation  *)
(* failed, optimal_trajectory_to_goal_with_factor raises the lookup error   *)
(* and returns no trajectory.                                               *)
C16_FailedKeyLookupFails ==
    (pc = "queried" /\ RaisedAt(hist.before, world[1], rollout.key) # "no")
        => rollout.result = "IndexError"

(* the key failed in the second pass only at the trajectory from the        *)
(* current state, with its optimum trajectory cached; another key of the    *)
(* table gives its trajectory                                               *)
C16_Witness ==
    /\ pc = "queried"
    /\ hist.passes = 2
    /\ RaisedAt(hist.before, world[1], rollout.key) = "current"
    /\ tables[1].optimum_trajectory[rollout.key] = "traj"
    /\ rollout.result = "IndexError"
    /\ \E k \in DOMAIN tables[1].all_trajectories :
          OptimalTrajectoryToGoalWithFactor(tables[1], k) = "traj"

(* a key that did not fail gives its trajectory *)
C16_FeasibleKeyGivesTrajectory ==
    (pc = "queried" /\ RaisedAt(hist.before, world[1], rollout.key) = "no")
        => rollout.result = "traj"

(* the factors whose unnormalised sum over the goals was zero in the last   *)
(* pass (factor_goal_sum, line 152)                                         *)
ZeroSumFactors ==
    {i \in RecogH : FactorGoalSum(hist.before, cfg.factors, world[1], i) = Zero}

(* C23, as stated: after a pass, for every factor whose unnormalised sum    *)
(* over the goals is zero, the goal probability of every key of the factor  *)
(* is the goal's prior.                                                     *)
C23_Original_ZeroSumFactorGetsGoalPriors ==
    RecogPassed =>
        \A i \in ZeroSumFactors : \A g \in Goals :
            RecogTable.goals_probabilities[<<g, i>>] = RecogTable.goals_priors[g]

(* C23, amended: the pass always completes; for a factor of zero sum the    *)
(* factor's probability is 0 and, when the total mass of the pass is        *)
(* nonzero, the goal probability of each of its keys is the goal's prior;   *)
(* when the total mass is zero (every factor has zero sum) line 159 raises  *)
(* ZeroDivisionError for every factor, which is caught, and the goal        *)
(* probability of every key stays 0.                                        *)
C23_ZeroSumFactorFallback ==
    RecogPassed =>
        \A i \in ZeroSumFactors :
            /\ RecogTable.occluded_factors_probabilities[i] = Zero
            /\ \A g \in Goals :
                  RecogTable.goals_probabilities[<<g, i>>] =
                      IF LastNormFactor # Zero THEN RecogTable.goals_priors[g] ELSE Zero

(* a factor of zero sum beside one of nonzero sum: the fallback is taken *)
C23_Witness ==
    /\ RecogPassed
    /\ Len(cfg.factors) = 2
    /\ LastNormFactor # Zero
    /\ ZeroSumFactors = {1}
    /\ ~cfg.factors[1].force_invisible
    /\ hist.prior_used[1] # Zero
    /\ \A g \in Goals : RecogTable.goals_probabilities[<<g, 1>>] = <<1, 2>>
    /\ RecogTable.goals_probabilities[<<"g1", 2>>] \notin {Zero, One, <<1, 2>>}

(* every factor has zero sum: the goal probabilities stay 0 *)
C23_WitnessZeroMass ==
    /\ RecogPassed
    /\ Len(cfg.factors) = 2
    /\ LastNormFactor = Zero
    /\ ZeroSumFactors = {1, 2}
    /\ \A k \in DOMAIN RecogTable.goals_probabilities :
          RecogTable.goals_probabilities[k] = Zero

-----------------------------------------------------------------------------
(* Enumerating the factors: SpecFactors.  The hidden elements and the       *)
(* forced-visible ids are drawn from bounded sets and                       *)
(* create_all_instantiations is applied to them, as get_occluded_factors    *)
(* does (gofi_agent.py line 133).                                           *)

MaxElements == 3

ElementIds == {11, 12, 13, 14}

(* the sequences of pairwise different ids of length at most n *)
DistinctSeqsUpTo(S, n) ==
    {q \in SeqsUpTo(S, n) : \A i, j \in 1..Len(q) : i # j => q[i] # q[j]}

(* the forced-visible ids: None or an empty list ({}), ids of elements and  *)
(* the id 15 of an agent that is no hidden element                          *)
ForcedIdChoices == SUBSET {11, 12, 15}

FactorsInit ==
    /\ pc = "elements"
    /\ \E elements \in DistinctSeqsUpTo(ElementIds, MaxElements), forced \in ForcedIdChoices :
         cfg = [elements |-> elements, forced |-> forced, factors |-> <<>>]
    /\ tables = <<>>
    /\ world = <<>>
    /\ hist = <<>>
    /\ merge = NoMerge
    /\ rollout = NoRollout
    /\ tree = NoTree

(* get_occluded_factors line 133 *)
GetOccludedFactors ==
    /\ pc = "elements"
    /\ cfg' = [cfg EXCEPT !.factors = CreateAllInstantiations(cfg.elements, cfg.forced)]
    /\ pc' = "factors"
    /\ UNCHANGED <<tables, world, merge, rollout, tree, hist>>

HasOcclusions(f) == ~no_occlusions(f)

(* the factor lists a table is built over: all the factors, as update_plan  *)
(* does, and for a caller of the constructor the occluded ones alone, the   *)
(* rest alone, and no factor (the default argument)                         *)
FactorListChoices(factors) ==
    {factors, SelectSeq(factors, HasOcclusions), SelectSeq(factors, no_occlusions), <<>>}

(* the scalar priors: None (0.1 is taken) and the floats 0.5, 0.0 and 1.0 *)
ScalarPzChoices == {None, <<1, 2>>, Zero, One}

GoalChoices == {{"g1"}, Goals}

OGoalsProbabilitiesDivisors_BothTerms(goals, occluded_factors) ==
    LET H == 1..Len(occluded_factors)
        n_occluded == Cardinality({i \in H : ~no_occlusions(occluded_factors[i])})
    IN {Cardinality(goals), Cardinality(goals \X H)}
           \cup (IF H # {} THEN {Len(occluded_factors) - n_occluded, n_occluded} ELSE {})

(* the numbers OGoalsProbabilities.__init__ divides by, with a scalar pz:   *)
(* len(goals) (line 35), n_visible and n_occluded where line 44 meets a     *)
(* factor of that kind, and len(goals_and_factors) (line 52)                *)
OGoalsProbabilitiesDivisors(goals, occluded_factors) ==
    LET H == 1..Len(occluded_factors)
        n_occluded == Cardinality({i \in H : ~no_occlusions(occluded_factors[i])})
    IN {Cardinality(goals), Cardinality(goals \X H)}
           \cup {Len(occluded_factors) - n_occluded :
                    i \in {j \in H : no_occlusions(occluded_factors[j])}}
           \cup {n_occluded : i \in {j \in H : ~no_occlusions(occluded_factors[j])}}

(* the constructor called with a scalar pz: the table, or the error raised *)
NewTable(goals, occluded_factors, pz_arg) ==
    IF 0 \in OGoalsProbabilitiesDivisors(goals, occluded_factors)
    THEN [error |-> "ZeroDivisionError"]
    ELSE [error |-> "none", table |-> OGoalsProbabilities(goals, occluded_factors, pz_arg)]

(* a table is built over a list of the factors (gofi_agent.py line 158, or  *)
(* a direct call of the constructor); hist keeps the arguments              *)
BuildTable ==
    /\ pc = "factors"
    /\ \E goals \in GoalChoices, fs \in FactorListChoices(cfg.factors),
          pz \in ScalarPzChoices :
         /\ tables' = [a \in {1} |-> NewTable(goals, fs, pz)]
         /\ hist' = [goals |-> goals, occluded_factors |-> fs, pz |-> pz]
    /\ pc' = "table"
    /\ UNCHANGED <<cfg, world, merge, rollout, tree>>

(* A factor object: OccludedFactor defines neither __eq__ nor __hash__, so  *)
(* Python compares and hashes the objects by identity.  oid is the          *)
(* identity of the object and value what it was constructed with; the       *)
(* factors of the list get the oids 1..Len, any other object a later one.   *)
FactorObject(oid, f) == [oid |-> oid, value |-> f]

(* a == b *)
FactorEq(a, b) == a.oid = b.oid

(* hash(a), up to the injection from ids to hashes *)
FactorHash(a) == <<a.oid>>

(* whether a dict keyed by the factors of the list finds the key k *)
DictHasKey(occluded_factors, k) ==
    \E j \in 1..Len(occluded_factors) :
        LET key == FactorObject(j, occluded_factors[j])
        IN FactorHash(key) = FactorHash(k) /\ FactorEq(key, k)

(* sample_goals_given_factor line 102: the goals whose key has the factor *)
GoalsGivenFactor(goals, occluded_factors, k) ==
    {g \in goals : \E j \in 1..Len(occluded_factors) :
                      FactorEq(FactorObject(j, occluded_factors[j]), k)}

(* pick_action line 46: whether list.index finds the factor's action among  *)
(* the super-root's actions                                                 *)
ActionsHasFactor(occluded_factors, k) ==
    \E j \in 1..Len(occluded_factors) :
        /\ ~no_occlusions(occluded_factors[j])
        /\ FactorEq(FactorObject(j, occluded_factors[j]), k)

(* a factor of the list is looked up, in a table over the list and among    *)
(* the super-root's actions, with a factor object other: the same object,   *)
(* or a second object constructed over the same elements with the same      *)
(* presence vector                                                          *)
LookupWithFactor ==
    /\ pc = "factors"
    /\ \E j \in 1..Len(cfg.factors) : \E oid \in {j, Len(cfg.factors) + 1} :
         LET f == cfg.factors[j]
             one == FactorObject(j, f)
             other == FactorObject(oid, OccludedFactorInit(f.elements, f.presence,
                                                          f.force_visible, f.force_invisible))
         IN world' = [one |-> one, other |-> other,
                      eq |-> FactorEq(one, other),
                      hash_eq |-> FactorHash(one) = FactorHash(other),
                      prior_found |-> DictHasKey(cfg.factors, other),
                      goals_found |-> GoalsGivenFactor(Goals, cfg.factors, other) # {},
                      action_found |-> ActionsHasFactor(cfg.factors, other)]
    /\ pc' = "lookup"
    /\ UNCHANGED <<cfg, tables, merge, rollout, tree, hist>>

(* the frames update_frame is given: agent ids with their observed states;  *)
(* in the last one agent 11, a hidden element, is observed as well          *)
UpdateFrameChoices == {{0}, {0, 1}, {0, 1, 11}}

(* OccludedFactor.update_frame(frame, in_place): frame is the caller's dict *)
(* after the call, returned what the call returns; a state is "frame" when  *)
(* it is the input's and "element" when it is agent.state of an element.    *)
(* zip(elements, None) raises TypeError for a factor without elements.      *)
UpdateFrame(f, frame, in_place) ==
    LET present == present_elements(f)
        put == [aid \in DOMAIN frame \cup present |->
                   IF aid \in present THEN "element" ELSE frame[aid]]
    IN IF f.presence = None
       THEN [error |-> "TypeError", frame |-> frame, returned |-> None]
       ELSE IF in_place
       THEN [error |-> "none", frame |-> put, returned |-> put]
       ELSE [error |-> "none", frame |-> frame, returned |-> put]

(* the factors update_frame is called on: those of the list, and the factor *)
(* OccludedFactor([]) a caller constructs over no elements                  *)
UpdateFrameFactors(factors) ==
    Range(factors) \cup {OccludedFactorInit(<<>>, <<>>, FALSE, FALSE)}

(* one call of update_frame; world keeps the arguments and the outcome *)
UpdateFrameCall ==
    /\ pc = "factors"
    /\ \E f \in UpdateFrameFactors(cfg.factors), ids \in UpdateFrameChoices,
          in_place \in BOOLEAN :
         LET frame == [aid \in ids |-> "frame"]
             r == UpdateFrame(f, frame, in_place)
         IN world' = [factor |-> f, in_place |-> in_place, frame_before |-> frame,
                      frame_after |-> r.frame, returned |-> r.returned,
                      error |-> r.error]
    /\ pc' = "updated"
    /\ UNCHANGED <<cfg, tables, merge, rollout, tree, hist>>

(* the constructor OccludedFactor(elements, presence, force_visible,        *)
(* force_invisible): the object, or the AssertionError of line 41           *)
NewOccludedFactor(elements, presence, force_visible, force_invisible) ==
    LET f == OccludedFactorInit(elements, presence, force_visible, force_invisible)
    IN IF f.ok THEN [error |-> "none", factor |-> f]
       ELSE [error |-> "AssertionError"]

(* a caller constructs a factor over the elements with any pair of flags *)
ConstructFactor ==
    /\ pc = "elements"
    /\ \E force_visible \in BOOLEAN, force_invisible \in BOOLEAN :
         /\ world' = NewOccludedFactor(cfg.elements, <<>>, force_visible, force_invisible)
         /\ hist' = [force_visible |-> force_visible, force_invisible |-> force_invisible]
    /\ pc' = "constructed"
    /\ UNCHANGED <<cfg, tables, merge, rollout, tree>>

(* the lists of factor priors a caller passes in place of a scalar *)
PriorListChoices ==
    {<<>>, <<One>>, << <<1, 2>>, <<1, 2>> >>, << <<1, 2>>, <<1, 4>>, <<1, 4>> >>,
     << <<1, 4>>, <<1, 4>>, <<1, 4>>, <<1, 4>> >>}

(* the constructor called with a list of factor priors: lines 40-45 are     *)
(* skipped, line 47 asserts the lengths equal, line 52 divides by the       *)
(* number of keys                                                           *)
NewTableFromPriorList(goals, occluded_factors, priors) ==
    IF Cardinality(goals) = 0 THEN [error |-> "ZeroDivisionError"]
    ELSE IF Len(priors) # Len(occluded_factors) THEN [error |-> "AssertionError"]
    ELSE IF Len(occluded_factors) = 0 THEN [error |-> "ZeroDivisionError"]
    ELSE [error |-> "none",
          table |-> [OGoalsProbabilities(goals, occluded_factors, None) EXCEPT
                        !.occluded_factors_priors = priors,
                        !.occluded_factors_probabilities = priors]]

(* a table is built over a list of the factors with a list of priors *)
BuildTableFromPriorList ==
    /\ pc = "factors"
    /\ \E goals \in GoalChoices, fs \in FactorListChoices(cfg.factors),
          priors \in PriorListChoices :
         /\ tables' = [a \in {1} |-> NewTableFromPriorList(goals, fs, priors)]
         /\ hist' = [goals |-> goals, occluded_factors |-> fs, pz |-> priors]
    /\ pc' = "list_table"
    /\ UNCHANGED <<cfg, world, merge, rollout, tree>>

(* update_plan lines 161-168, after the tables were built over all the      *)
(* factors (line 158): id_order, or ValueError for an unknown keyword       *)
SelectIdOrder ==
    /\ pc = "table"
    /\ tables[1].error = "none"
    /\ hist.occluded_factors = cfg.factors
    /\ \E order \in OrderChoices :
         LET orders == IdOrders(order, DOMAIN tables)
         IN IF orders = {}
            THEN /\ merge' = [used |-> TRUE, belief_merging_order |-> order,
                              error |-> "ValueError"]
                 /\ pc' = "error"
            ELSE /\ \E q \in orders :
                      merge' = [used |-> TRUE, belief_merging_order |-> order,
                                error |-> "none", id_order |-> q]
                 /\ pc' = "ordered"
    /\ UNCHANGED <<cfg, tables, world, rollout, tree, hist>>

FactorsNext ==
    \/ GetOccludedFactors
    \/ BuildTable
    \/ LookupWithFactor
    \/ UpdateFrameCall
    \/ ConstructFactor
    \/ BuildTableFromPriorList
    \/ SelectIdOrder

SpecFactors == FactorsInit /\ [][FactorsNext]_vars

RECURSIVE Pow2(_)
Pow2(n) == IF n = 0 THEN 1 ELSE 2 * Pow2(n - 1)

(* C17: with no forced ids, n >= 0 elements give max(1, 2^n) factors, which *)
(* is 2^n, of pairwise different presence vectors, each over the given      *)
(* elements, and exactly one of them has no occlusions.                     *)
C17_AllInstantiationsEnumerated ==
    (pc = "factors" /\ cfg.forced = {}) =>
        LET n == Len(cfg.elements)
            fs == cfg.factors
        IN /\ Len(fs) = (IF Pow2(n) > 1 THEN Pow2(n) ELSE 1)
           /\ \A i, j \in 1..Len(fs) : i # j => fs[i].presence # fs[j].presence
           /\ \A i \in 1..Len(fs) :
                 /\ n > 0 => fs[i].elements = cfg.elements
                 /\ Len(fs[i].presence) = Len(fs[i].elements)
                 /\ ~fs[i].force_visible /\ ~fs[i].force_invisible
           /\ Cardinality({i \in 1..Len(fs) : no_occlusions(fs[i])}) = 1

C17_Witness ==
    /\ pc = "factors"
    /\ cfg.forced = {}
    /\ Len(cfg.elements) = 3
    /\ Len(cfg.factors) = 8
    /\ no_occlusions(cfg.factors[8])
    /\ present_elements(cfg.factors[1]) = {cfg.elements[1], cfg.elements[2], cfg.elements[3]}

(* no elements: the single factor over [None] *)
C17_WitnessNoElements ==
    /\ pc = "factors"
    /\ cfg.elements = <<>>
    /\ Len(cfg.factors) = 1
    /\ no_occlusions(cfg.factors[1])

(* the positions of the elements that the forced list names *)
NamedByForced == {i \in 1..Len(cfg.elements) : cfg.elements[i] \in cfg.forced}

AllNamedPresent(f) == \A i \in NamedByForced : f.presence[i]
AllNamedAbsent(f) == \A i \in NamedByForced : ~f.presence[i]

(* C18, as stated: with a non-empty forced list a factor is force_visible   *)
(* exactly when the bits of the named elements are all true, and            *)
(* force_invisible exactly when they are all false; none has both tags.     *)
C18_Original_TagsExactlyByNamedBits ==
    (pc = "factors" /\ cfg.forced # {}) =>
        \A p \in 1..Len(cfg.factors) :
            LET f == cfg.factors[p]
            IN /\ f.force_visible <=> AllNamedPresent(f)
               /\ f.force_invisible <=> AllNamedAbsent(f)
               /\ ~(f.force_visible /\ f.force_invisible)

(* C18, amended: over a non-empty element list a factor is force_visible    *)
(* exactly when the bits of the named elements are all true, which is so    *)
(* for every factor when the list names no element, and force_invisible     *)
(* exactly when the list names some element and the named bits are all      *)
(* false; mixed bits give neither tag and no factor has both; the single    *)
(* factor of an empty element list has no tag.                              *)
C18_TagsByNamedBits ==
    (pc = "factors" /\ cfg.forced # {}) =>
        \A p \in 1..Len(cfg.factors) :
            LET f == cfg.factors[p]
            IN /\ cfg.elements # <<>> =>
                    /\ f.force_visible <=> AllNamedPresent(f)
                    /\ f.force_invisible <=> (NamedByForced # {} /\ AllNamedAbsent(f))
                    /\ (~AllNamedPresent(f) /\ ~AllNamedAbsent(f))
                          => (~f.force_visible /\ ~f.force_invisible)
               /\ cfg.elements = <<>> => (~f.force_visible /\ ~f.force_invisible)
               /\ ~(f.force_visible /\ f.force_invisible)
               /\ f.ok

(* two of three elements named: all three kinds of factor occur *)
C18_Witness ==
    /\ pc = "factors"
    /\ Len(cfg.elements) = 3
    /\ Cardinality(NamedByForced) = 2
    /\ \E p, q, r \in 1..Len(cfg.factors) :
          /\ cfg.factors[p].force_visible /\ ~no_occlusions(cfg.factors[p])
          /\ cfg.factors[q].force_invisible /\ ~no_occlusions(cfg.factors[q])
          /\ ~cfg.factors[r].force_visible /\ ~cfg.factors[r].force_invisible

(* the forced list names no element and every factor is force_visible *)
C18_WitnessNoElementNamed ==
    /\ pc = "factors"
    /\ cfg.forced = {15}
    /\ Len(cfg.elements) = 2
    /\ \A p \in 1..Len(cfg.factors) : cfg.factors[p].force_visible

(* the table built, its scalar pz and the counts of lines 40-41 *)
BuiltPz == IF hist.pz = None THEN <<1, 10>> ELSE hist.pz
NOccluded ==
    Cardinality({i \in 1..Len(hist.occluded_factors) :
                    ~no_occlusions(hist.occluded_factors[i])})
NVisible == Len(hist.occluded_factors) - NOccluded

(* the priors of the table are the split of pz and 1 - pz *)
PriorsSplitPz ==
    \A i \in 1..Len(hist.occluded_factors) :
        LET prior == tables[1].table.occluded_factors_priors[i]
        IN IF no_occlusions(hist.occluded_factors[i])
           THEN RMul(prior, <<NVisible, 1>>) = RSub(One, BuiltPz)
           ELSE RMul(prior, <<NOccluded, 1>>) = BuiltPz

(* one element, the default pz: present 0.1, absent 0.9 *)
OneElementDefaultPz ==
    (/\ Len(cfg.elements) = 1
     /\ hist.occluded_factors = cfg.factors
     /\ hist.pz = None)
        => tables[1].table.occluded_factors_priors = << <<1, 10>>, <<9, 10>> >>

(* C19, as stated: built with a scalar pz, the table gives every occluded   *)
(* factor the prior pz / n_occluded and every other factor the prior        *)
(* (1 - pz) / n_visible, and the construction divides by zero for no factor *)
(* list, whether n_occluded or n_visible is 0.                              *)
C19_Original_PriorsSplitAndNoDivisionByZero ==
    pc = "table" =>
        /\ tables[1].error = "none"
        /\ PriorsSplitPz
        /\ OneElementDefaultPz

(* C19, amended: the same for every factor list that is not empty; over an  *)
(* empty factor list (n_occluded and n_visible both 0) the construction     *)
(* raises ZeroDivisionError.                                                *)
C19_PriorsSplitForNonEmptyFactorList ==
    pc = "table" =>
        IF hist.occluded_factors = <<>>
        THEN tables[1].error = "ZeroDivisionError"
        ELSE /\ tables[1].error = "none"
             /\ PriorsSplitPz
             /\ OneElementDefaultPz

(* a table over occluded factors only: n_visible is 0 *)
C19_Witness ==
    /\ pc = "table"
    /\ tables[1].error = "none"
    /\ NVisible = 0
    /\ NOccluded = 3
    /\ hist.pz = <<1, 2>>
    /\ \A i \in 1..3 : tables[1].table.occluded_factors_priors[i] = <<1, 6>>

(* a table over the no-occlusion factor only: n_occluded is 0 *)
C19_WitnessNoOccluded ==
    /\ pc = "table"
    /\ tables[1].error = "none"
    /\ NOccluded = 0
    /\ NVisible = 1
    /\ tables[1].table.occluded_factors_priors = << <<9, 10>> >>

(* the scenario of one element and the default pz *)
C19_WitnessOneElement ==
    /\ pc = "table"
    /\ Len(cfg.elements) = 1
    /\ hist.occluded_factors = cfg.factors
    /\ hist.pz = None
    /\ hist.goals = {"g1"}
    /\ tables[1].error = "none"
    /\ tables[1].table.occluded_factors_priors = << <<1, 10>>, <<9, 10>> >>

(* C20, as stated: two factors over the same elements with equal presence  *)
(* vectors compare equal and hash equal, and either finds the other's       *)
(* entries in a table and the other's action at the super-root.             *)
C20_EqualFactorsInterchangeable ==
    (/\ pc = "lookup"
     /\ world.one.value.elements = world.other.value.elements
     /\ world.one.value.presence = world.other.value.presence) =>
        /\ world.eq
        /\ world.hash_eq
        /\ world.prior_found
        /\ world.goals_found
        /\ ~no_occlusions(world.one.value) => world.action_found

(* the same for one object looked up with itself; this holds *)
C20_HoldsForTheSameObject ==
    (pc = "lookup" /\ world.one.oid = world.other.oid) => C20_EqualFactorsInterchangeable

(* a second object never finds anything *)
C20_SecondObjectFindsNothing ==
    (pc = "lookup" /\ world.one.oid # world.other.oid) =>
        /\ ~world.eq
        /\ ~world.prior_found
        /\ ~world.goals_found
        /\ ~world.action_found

(* update_frame was called without in_place *)
UpdateFrameCopied == pc = "updated" /\ ~world.in_place

(* C21, as stated: update_frame without in_place leaves the input frame as  *)
(* it was and returns a frame that has every entry of the input and, added  *)
(* to them, the states of exactly the elements whose presence bit is true;  *)
(* for a factor of no occlusions it returns the entries of the input.       *)
C21_UpdateFrameKeepsInputAndAddsPresent ==
    UpdateFrameCopied =>
        /\ world.error = "none"
        /\ world.frame_after = world.frame_before
        /\ \A aid \in DOMAIN world.frame_before :
              /\ aid \in DOMAIN world.returned
              /\ world.returned[aid] = world.frame_before[aid]
        /\ DOMAIN world.returned
              = DOMAIN world.frame_before \cup present_elements(world.factor)
        /\ {aid \in DOMAIN world.returned : world.returned[aid] = "element"}
              = present_elements(world.factor)
        /\ no_occlusions(world.factor) => world.returned = world.frame_before

(* the same for a factor made over elements none of which is in the frame;  *)
(* this holds                                                               *)
C21_HoldsWhenNoPresentElementInFrame ==
    (/\ UpdateFrameCopied
     /\ world.factor.presence # None
     /\ present_elements(world.factor) \cap DOMAIN world.frame_before = {})
        => C21_UpdateFrameKeepsInputAndAddsPresent

(* the input frame is never changed without in_place; this holds *)
C21_InputFrameUnchanged ==
    UpdateFrameCopied => world.frame_after = world.frame_before

(* C22: an unknown belief-merging keyword makes update_plan raise           *)
(* ValueError and gives no id_order, where a known keyword or a list gives  *)
(* one; a list of factor priors whose length is not that of the factor list *)
(* makes the table constructor raise and gives no table; both force flags   *)
(* make the factor constructor raise AssertionError and give no factor,     *)
(* where any other pair of flags gives the factor.                          *)
C22_InvalidConfigurationRejected ==
    /\ (pc \in {"error", "ordered"} /\ merge.used) =>
          IF merge.belief_merging_order.kind \notin {"increasing_id", "random", "list"}
          THEN /\ pc = "error"
               /\ merge.error = "ValueError"
               /\ "id_order" \notin DOMAIN merge
          ELSE pc = "ordered" /\ merge.error = "none"
    /\ pc = "list_table" =>
          /\ Len(hist.pz) # Len(hist.occluded_factors) =>
                /\ tables[1].error = "AssertionError"
                /\ "table" \notin DOMAIN tables[1]
          /\ tables[1].error = "none" =>
                tables[1].table.occluded_factors_priors = hist.pz
    /\ pc = "constructed" =>
          IF hist.force_visible /\ hist.force_invisible
          THEN world.error = "AssertionError" /\ "factor" \notin DOMAIN world
          ELSE /\ world.error = "none"
               /\ world.factor.force_visible = hist.force_visible
               /\ world.factor.force_invisible = hist.force_invisible

(* the unknown keyword was rejected *)
C22_Witness ==
    /\ pc = "error"
    /\ merge.used
    /\ merge.belief_merging_order.kind = "unknown"
    /\ merge.error = "ValueError"

(* a prior list shorter than a non-empty factor list was rejected *)
C22_WitnessPriorList ==
    /\ pc = "list_table"
    /\ Len(hist.occluded_factors) = 4
    /\ Len(hist.pz) = 3
    /\ tables[1].error = "AssertionError"

(* both flags over a non-empty element list were rejected *)
C22_WitnessBothFlags ==
    /\ pc = "constructed"
    /\ cfg.elements # <<>>
    /\ hist.force_visible /\ hist.force_invisible
    /\ world.error = "AssertionError"

====
